---- MODULE Spec2Model ----
(***************************************************************************)
(* A model of the pixel editor: the geometry utilities of                  *)
(* src/utils/pixelUtils.ts, the drawing controller of                      *)
(* src/components/Canvas.tsx and the frame sequence of the App component   *)
(* (src/unnamed/part_000).                                                 *)
(*                                                                         *)
(* JavaScript arrays are modelled as TLA+ sequences: the array element i   *)
(* (0-based) is the sequence element i+1.  Reading outside the array gives *)
(* "undefined", as in JavaScript.                                          *)
(***************************************************************************)
EXTENDS Integers, Sequences, FiniteSets, Bags, TLC

(***************************************************************************)
(* Bounds of the model.                                                    *)
(***************************************************************************)
\* getLinePixels is explored for every start and end with coordinates in
\* -MaxLineCoord .. MaxLineCoord.
MaxLineCoord == 2
\* floodFill is explored on every grid of every size up to MaxFillW x MaxFillH.
MaxFillW == 3
MaxFillH == 2

\* The project opens with a DEFAULT_SIZE x DEFAULT_SIZE grid.  The program's
\* value is 32 (src/constants.ts:1); the model scales it down so that the
\* grids can be enumerated.
DEFAULT_SIZE == 2
\* The fields of New Project are set to the sides -MaxNegSide..MaxNewSide but
\* 0, which the fields replace.
MaxNewSide == 2
MaxNegSide == 1
\* At most MaxPending calls of one kind (imports, generations, exports) are
\* pending at a time.
MaxPending == 2
\* The frame sequence is not grown beyond MaxFrames frames.
MaxFrames == 3
\* The clock (Date.now()) runs from 1 to MaxClock.
MaxClock == 2
\* A run of the application handles at most MaxSteps events, the opening and
\* closing of the two dialogs not counted.
MaxSteps == 4
\* The stroke specification draws on a StrokeSide x StrokeSide grid and
\* handles at most MaxStrokeSteps pointer events.
StrokeSide == 4
MaxStrokeSteps == 3
\* Imported images are up to MaxImgW x MaxImgH pixels.
MaxImgW == 3
MaxImgH == 2
\* The canvas specification handles at most MaxCanvasSteps pointer, wheel and
\* tool events.
MaxCanvasSteps == 4
\* The duplication specification handles at most MaxDupSteps events.
MaxDupSteps == 6
\* The sheet import specification imports images of up to MaxSheetSide pixels
\* a side into projects of up to MaxNewSide cells a side.
MaxSheetSide == 4
\* getIndex and getCoords are called with widths up to MaxGeomW, x from -1 to
\* MaxGeomW, y from -1 to MaxGeomY and indices from -1 to MaxGeomI.
MaxGeomW == 4
MaxGeomY == 3
MaxGeomI == 12
\* The zoom specification handles at most MaxZoomSteps wheel and pan events.
MaxZoomSteps == 40
MaxSheetSteps == 3
\* the clock ticks at most this often while one import runs
MaxImportTicks == 1
\* The playback specification runs projects of PlayLengths frames for MaxTime
\* ms and at most MaxPlaySteps events, with the fps field set to FpsValues;
\* time goes by up to the next tick of the interval, by PartialElapse ms, or
\* up to MaxTime.
MaxTime == 1000
MaxPlaySteps == 14
PartialElapse == 50

VARIABLES
    line,   \* the running call of getLinePixels
    fill,   \* the running call of floodFill
    geom,   \* a call of getIndex and getCoords
    \* ---- App (src/unnamed/part_000)
    size,                  \* {width, height}
    frames,                \* Frame[]: records {id, pixels}
    currentFrameIdx,
    activeTool,
    primaryColor,
    isPlaying,
    fps,                   \* a number: Num(n) or NaN
    timer,                 \* the interval of the animation loop: the delay
                           \* it was set with, the ms since it was set or
                           \* last fired and how often it has fired; NULL
                           \* when there is none
    time,                  \* ms gone by since the start of the run
    exportCalls,           \* the pending createGIF calls, a bag of their
                           \* arguments
    exported,              \* the last GIF createGIF returned
    isAIModalOpen,
    isNewProjectModalOpen,
    isGenerating,
    aiCalls,               \* the pending handleGenerateAI calls, a bag of
                           \* their closures and how far each has come
    importCalls,           \* the pending handleFileChange calls, a bag of
                           \* their closures
    now,                   \* Date.now()
    \* ---- Canvas (src/components/Canvas.tsx)
    isDrawing,
    isPanning,
    lastDrawPoint,
    dragStart,
    pan,
    zoom,                  \* base * 1.1^exp, as the record [base, exp]
    \* ---- bookkeeping of the model
    lastEvent,             \* the event handled by the last step
    steps,                 \* number of events handled so far
    dragOrigin,            \* history: pan and pointer position at the
                           \* pointer-down that began the pan in progress
    tickLog,               \* history: when the interval was set, the current
                           \* index then, and the ticks it has fired since
    strokeFrames           \* history: the ids of the frames whose pixels the
                           \* pointer events since the last pointer-down,
                           \* it included, have changed

pureVars == <<line, fill, geom>>
projVars == <<size, frames, currentFrameIdx>>
toolVars == <<activeTool, primaryColor>>
modalVars == <<isAIModalOpen, isNewProjectModalOpen>>
asyncVars == <<isGenerating, aiCalls, importCalls>>
canvasVars == <<isDrawing, isPanning, lastDrawPoint, dragStart, pan, zoom>>
playVars == <<fps, timer, time, tickLog>>
exportVars == <<exportCalls, exported>>
appVars == <<projVars, toolVars, isPlaying, modalVars, asyncVars, now, canvasVars,
             lastEvent, steps, dragOrigin, playVars, exportVars, strokeFrames>>
vars == <<pureVars, appVars>>

(***************************************************************************)
(* Small helpers.                                                          *)
(***************************************************************************)
Abs(n) == IF n < 0 THEN 0 - n ELSE n
Max(a, b) == IF a > b THEN a ELSE b
Min(a, b) == IF a < b THEN a ELSE b
Pt(px, py) == [x |-> px, y |-> py]

\* The numbers of JavaScript that are not all integers: what parseInt returns
\* (an integer, the zero with a minus sign of the text "-0", which Object.is
\* tells from 0, or NaN) and what is computed from it.
Num(n) == [val |-> n]
NaN == [nan |-> TRUE]
MinusZero == [minuszero |-> TRUE]

\* a[i] of a JavaScript array: "undefined" outside 0 .. length-1
At(a, i) == IF i >= 0 /\ i < Len(a) THEN a[i + 1] ELSE "undefined"

\* a[i] = v on a JavaScript array: a write at or beyond the length grows the
\* array and leaves holes (which read as "undefined"); a write at a negative
\* index sets a property and leaves the elements alone.
ArrSet(a, i, v) ==
    IF i < 0 THEN a
    ELSE IF i < Len(a) THEN [a EXCEPT ![i + 1] = v]
    ELSE [k \in 1..(i + 1) |-> IF k <= Len(a) THEN a[k]
                               ELSE IF k = i + 1 THEN v ELSE "undefined"]

InBounds(p, sz) ==
    p.x >= 0 /\ p.x < sz.width /\ p.y >= 0 /\ p.y < sz.height

(***************************************************************************)
(* src/utils/pixelUtils.ts                                                 *)
(***************************************************************************)
getIndex(x, y, width) == y * width + x

\* a % b of JavaScript for b > 0: the result has the sign of a
JsRem(a, b) == IF a >= 0 THEN a % b ELSE 0 - ((0 - a) % b)

\* getCoords rounding the row to the nearest integer.
GetCoordsRounds(index, width) ==
    [x |-> JsRem(index, width), y |-> (2 * index + width) \div (2 * width)]
getCoords(index, width) == [x |-> JsRem(index, width), y |-> index \div width]

\* ---- one call of getIndex and getCoords each way
GeomCall(x, y, width, i) ==
    [pc |-> "call", x |-> x, y |-> y, width |-> width, i |-> i]

GeomRun(c) ==
    LET index == getIndex(c.x, c.y, c.width)
        ofI == getCoords(c.i, c.width)
    IN  [pc     |-> "done",
         x      |-> c.x,
         y      |-> c.y,
         width  |-> c.width,
         i      |-> c.i,
         index  |-> index,
         coords |-> getCoords(index, c.width),
         ofI    |-> ofI,
         back   |-> getIndex(ofI.x, ofI.y, c.width)]

\* ---- getLinePixels: the state of the call, one loop iteration at a time
LineStart(start, end) ==
    [pc     |-> "loop",
     start  |-> start,
     end    |-> end,
     x0     |-> start.x,
     y0     |-> start.y,
     dx     |-> Abs(end.x - start.x),
     dy     |-> Abs(end.y - start.y),
     sx     |-> IF start.x < end.x THEN 1 ELSE -1,
     sy     |-> IF start.y < end.y THEN 1 ELSE -1,
     err    |-> Abs(end.x - start.x) - Abs(end.y - start.y),
     points |-> <<>>]

\* LineIter with `else if (e2 < dx)`: one axis per iteration.
LineIterElseIf(st) ==
    LET pushed == Append(st.points, Pt(st.x0, st.y0))
        e2     == 2 * st.err
        stepX  == e2 > 0 - st.dy
        stepY  == ~stepX /\ e2 < st.dx
        err1   == IF stepX THEN st.err - st.dy ELSE st.err
    IN  IF st.x0 = st.end.x /\ st.y0 = st.end.y
        THEN [st EXCEPT !.points = pushed, !.pc = "done"]
        ELSE [st EXCEPT !.points = pushed,
                        !.x0  = IF stepX THEN st.x0 + st.sx ELSE st.x0,
                        !.y0  = IF stepY THEN st.y0 + st.sy ELSE st.y0,
                        !.err = IF stepY THEN err1 + st.dx ELSE err1]

\* LineIter with `if (e2 > dy)`: the minus sign lost.
LineIterSignSlip(st) ==
    LET pushed == Append(st.points, Pt(st.x0, st.y0))
        e2     == 2 * st.err
        stepX  == e2 > st.dy
        stepY  == e2 < st.dx
        err1   == IF stepX THEN st.err - st.dy ELSE st.err
    IN  IF st.x0 = st.end.x /\ st.y0 = st.end.y
        THEN [st EXCEPT !.points = pushed, !.pc = "done"]
        ELSE [st EXCEPT !.points = pushed,
                        !.x0  = IF stepX THEN st.x0 + st.sx ELSE st.x0,
                        !.y0  = IF stepY THEN st.y0 + st.sy ELSE st.y0,
                        !.err = IF stepY THEN err1 + st.dx ELSE err1]

\* One iteration of `while (true)`: push, test for the end point, step.
LineIter(st) ==
    LET pushed == Append(st.points, Pt(st.x0, st.y0))
        e2     == 2 * st.err
        stepX  == e2 > 0 - st.dy
        stepY  == e2 < st.dx
        err1   == IF stepX THEN st.err - st.dy ELSE st.err
    IN  IF st.x0 = st.end.x /\ st.y0 = st.end.y
        THEN [st EXCEPT !.points = pushed, !.pc = "done"]
        ELSE [st EXCEPT !.points = pushed,
                        !.x0  = IF stepX THEN st.x0 + st.sx ELSE st.x0,
                        !.y0  = IF stepY THEN st.y0 + st.sy ELSE st.y0,
                        !.err = IF stepY THEN err1 + st.dx ELSE err1]

RECURSIVE LineRun(_)
LineRun(st) == IF st.pc = "done" THEN st ELSE LineRun(LineIter(st))

getLinePixels(start, end) == LineRun(LineStart(start, end)).points

\* ---- floodFill: the state of the call, one loop iteration at a time
FloodCall(px, start, targetColor, fillColor, sz) ==
    [pc          |-> "enter",
     pixels      |-> px,
     start       |-> start,
     targetColor |-> targetColor,
     fillColor   |-> fillColor,
     size        |-> sz,
     newPixels   |-> <<>>,
     queue       |-> <<>>,
     visited     |-> {},
     commits     |-> <<>>,
     result      |-> <<>>]

\* FloodEnter that paints the start cell on entry and has lost the test of
\* the start cell against the target colour.
FloodEnterSeedsStart(st) ==
    LET startIndex == getIndex(st.start.x, st.start.y, st.size.width)
    IN  IF startIndex < 0 \/ startIndex >= Len(st.pixels)
        THEN [st EXCEPT !.pc = "done", !.result = st.pixels]
        ELSE IF At(st.pixels, startIndex) = st.fillColor
        THEN [st EXCEPT !.pc = "done", !.result = st.pixels]
        ELSE [st EXCEPT !.pc = "loop",
                        !.newPixels = ArrSet(st.pixels, startIndex, st.fillColor),
                        !.queue = <<st.start>>]

\* The guards at the head of floodFill.
FloodEnter(st) ==
    LET startIndex == getIndex(st.start.x, st.start.y, st.size.width)
    IN  IF startIndex < 0 \/ startIndex >= Len(st.pixels)
        THEN [st EXCEPT !.pc = "done", !.result = st.pixels]
        ELSE IF At(st.pixels, startIndex) = st.fillColor
        THEN [st EXCEPT !.pc = "done", !.result = st.pixels]
        ELSE IF At(st.pixels, startIndex) # st.targetColor
        THEN [st EXCEPT !.pc = "done", !.result = st.pixels]
        ELSE [st EXCEPT !.pc = "loop", !.newPixels = st.pixels,
                        !.queue = <<st.start>>]

\* FloodNeighbors with the four diagonal neighbours as well.
FloodNeighbors8(p, sz) ==
    SelectSeq(<<Pt(p.x + 1, p.y), Pt(p.x - 1, p.y),
                Pt(p.x, p.y + 1), Pt(p.x, p.y - 1),
                Pt(p.x + 1, p.y + 1), Pt(p.x - 1, p.y - 1),
                Pt(p.x + 1, p.y - 1), Pt(p.x - 1, p.y + 1)>>,
              LAMBDA n : InBounds(n, sz))

\* The in-bounds neighbours of p, in the order the code pushes them.
FloodNeighbors(p, sz) ==
    SelectSeq(<<Pt(p.x + 1, p.y), Pt(p.x - 1, p.y),
                Pt(p.x, p.y + 1), Pt(p.x, p.y - 1)>>,
              LAMBDA n : InBounds(n, sz))

\* FloodLoop without the visited set.
FloodLoopNoVisited(st) ==
    IF Len(st.queue) = 0
    THEN [st EXCEPT !.pc = "done", !.result = st.newPixels]
    ELSE LET p    == st.queue[Len(st.queue)]
             rest == SubSeq(st.queue, 1, Len(st.queue) - 1)
             idx  == getIndex(p.x, p.y, st.size.width)
         IN  IF At(st.newPixels, idx) = st.targetColor
             THEN [st EXCEPT !.queue     = rest \o FloodNeighbors(p, st.size),
                             !.newPixels = ArrSet(st.newPixels, idx, st.fillColor),
                             !.commits   = Append(st.commits, idx)]
             ELSE [st EXCEPT !.queue   = rest]
\* One iteration of `while (queue.length > 0)`, or the return after it.
\* commits records, in order, the indices that were recolored.
FloodLoop(st) ==
    IF Len(st.queue) = 0
    THEN [st EXCEPT !.pc = "done", !.result = st.newPixels]
    ELSE LET p    == st.queue[Len(st.queue)]
             rest == SubSeq(st.queue, 1, Len(st.queue) - 1)
             idx  == getIndex(p.x, p.y, st.size.width)
         IN  IF idx \in st.visited
             THEN [st EXCEPT !.queue = rest]
             ELSE IF At(st.newPixels, idx) = st.targetColor
             THEN [st EXCEPT !.queue     = rest \o FloodNeighbors(p, st.size),
                             !.visited   = st.visited \cup {idx},
                             !.newPixels = ArrSet(st.newPixels, idx, st.fillColor),
                             !.commits   = Append(st.commits, idx)]
             ELSE [st EXCEPT !.queue   = rest,
                             !.visited = st.visited \cup {idx}]

FloodIter(st) == IF st.pc = "enter" THEN FloodEnter(st) ELSE FloodLoop(st)

\* FloodTake forgetting the pending points behind the one it takes.
FloodTakeDropsRest(st, k) ==
    LET p    == st.queue[k]
        rest == SubSeq(st.queue, 1, k - 1)
        idx  == getIndex(p.x, p.y, st.size.width)
    IN  IF idx \in st.visited
        THEN [st EXCEPT !.queue = rest]
        ELSE IF At(st.newPixels, idx) = st.targetColor
        THEN [st EXCEPT !.queue     = rest \o FloodNeighbors(p, st.size),
                        !.visited   = st.visited \cup {idx},
                        !.newPixels = ArrSet(st.newPixels, idx, st.fillColor),
                        !.commits   = Append(st.commits, idx)]
        ELSE [st EXCEPT !.queue   = rest,
                        !.visited = st.visited \cup {idx}]
\* The loop body with the k-th pending point taken from the work-list in
\* place of the last one (queue.pop() is k = queue.length).
FloodTake(st, k) ==
    LET p    == st.queue[k]
        rest == SubSeq(st.queue, 1, k - 1) \o SubSeq(st.queue, k + 1, Len(st.queue))
        idx  == getIndex(p.x, p.y, st.size.width)
    IN  IF idx \in st.visited
        THEN [st EXCEPT !.queue = rest]
        ELSE IF At(st.newPixels, idx) = st.targetColor
        THEN [st EXCEPT !.queue     = rest \o FloodNeighbors(p, st.size),
                        !.visited   = st.visited \cup {idx},
                        !.newPixels = ArrSet(st.newPixels, idx, st.fillColor),
                        !.commits   = Append(st.commits, idx)]
        ELSE [st EXCEPT !.queue   = rest,
                        !.visited = st.visited \cup {idx}]

RECURSIVE FloodRun(_)
FloodRun(st) == IF st.pc = "done" THEN st ELSE FloodRun(FloodIter(st))

floodFill(px, start, targetColor, fillColor, sz) ==
    FloodRun(FloodCall(px, start, targetColor, fillColor, sz)).result

(***************************************************************************)
(* The pure functions as processes: SpecLine runs getLinePixels and        *)
(* SpecFill runs floodFill, on every input within the bounds.              *)
(***************************************************************************)
Idle == [pc |-> "idle"]

LineCoords == (0 - MaxLineCoord)..MaxLineCoord
LinePoints == {Pt(px, py) : px \in LineCoords, py \in LineCoords}

FillColors == {"transparent", "#000000"}
FillSizes == {[width |-> w, height |-> h] : w \in 1..MaxFillW, h \in 1..MaxFillH}
\* every grid of the size: width*height cells
GridsOf(sz, colors) == [1..(sz.width * sz.height) -> colors]
\* start points: the grid and a ring of out-of-bounds points around it
FillStarts(sz) == {Pt(px, py) : px \in (0 - 1)..sz.width, py \in (0 - 1)..sz.height}

(***************************************************************************)
(* App: src/unnamed/part_000                                               *)
(***************************************************************************)
\* the null reference, as a value that compares with points and records
NULL == [null |-> TRUE]

\* Frame ids.  The code builds the strings 'frame-0', `frame-${Date.now()}` and
\* `frame-${Date.now()}-${frames.length}`; the model keeps their parts.
INITIAL_FRAME_ID == <<"frame", 0>>
FrameId(t) == <<"frame", t>>
ImportFrameId(t, k) == <<"frame", t, k>>

Tools == {"pencil", "eraser", "bucket", "picker", "move"}
Palette == {"#000000", "#ff0000"}

Sz(w, h) == [width |-> w, height |-> h]

\* Array(n) throws RangeError: Invalid array length when n is negative
InvalidArrayLength(n) == n < 0
createEmptyGrid(width, height) == [k \in 1..(width * height) |-> "transparent"]

\* a bag of pending calls with one more call, and with one call gone
AddCall(calls, c) == calls (+) SetToBag({c})
DropCall(calls, c) == calls (-) SetToBag({c})
\* one more call may be started
MorePending(calls) == BagCardinality(calls) < MaxPending

\* What the App renders from: frames[currentFrameIdx].pixels.  When the index
\* is outside the array the render throws and the application is gone.
Mounted == currentFrameIdx >= 0 /\ currentFrameIdx < Len(frames)
pixels == frames[currentFrameIdx + 1].pixels
NoModal == ~isAIModalOpen /\ ~isNewProjectModalOpen

\* handleUpdatePixels writing the first frame whatever the index is.
HandleUpdatePixelsFirstFrame(fr, idx, newPixels) ==
    ArrSet(fr, 0, [id |-> fr[1].id, pixels |-> newPixels])
\* handleUpdatePixels as closed over a render's frames and currentFrameIdx:
\* the frames array it hands to setFrames.
handleUpdatePixels(fr, idx, newPixels) ==
    ArrSet(fr, idx, [id |-> fr[idx + 1].id, pixels |-> newPixels])

\* newFrames.splice(at, 0, f)
Splice(fr, at, f) ==
    SubSeq(fr, 1, at) \o <<f>> \o SubSeq(fr, at + 1, Len(fr))

\* frames.filter((_, i) => i !== idx)
FilterOut(fr, idx) ==
    SubSeq(fr, 1, idx) \o SubSeq(fr, idx + 2, Len(fr))

(***************************************************************************)
(* src/utils/importUtils.ts.  An image is its dimensions and the RGBA      *)
(* value of its pixels: the images of the model are of one value but for   *)
(* at most one marked pixel, which is opaque blue.                         *)
(***************************************************************************)
RGBA(r, g, b, a) == [r |-> r, g |-> g, b |-> b, a |-> a]

\* rgbaToHex is imported from pixelUtils (importUtils.ts:2, part_000:11),
\* whose source does not have it: the 6-hex-digit colour '#RRGGBB' of r, g
\* and b, in the lower case of the palette.
HexDigit(n) ==
    <<"0", "1", "2", "3", "4", "5", "6", "7",
      "8", "9", "a", "b", "c", "d", "e", "f">>[n + 1]
rgbaToHex(r, g, b) ==
    "#" \o HexDigit(r \div 16) \o HexDigit(r % 16)
        \o HexDigit(g \div 16) \o HexDigit(g % 16)
        \o HexDigit(b \div 16) \o HexDigit(b % 16)

\* the conversion of one pixel of the image data: a < 128 is transparent
PixelColor(p) ==
    IF p.a < 128 THEN "transparent" ELSE rgbaToHex(p.r, p.g, p.b)

\* the values of the images: clear, opaque red
ImageValues == {RGBA(0, 0, 0, 0), RGBA(255, 0, 0, 255)}
\* and those of the sprite sheets: clear, red on either side of the threshold
SheetValues == {RGBA(0, 0, 0, 0), RGBA(255, 0, 0, 127), RGBA(255, 0, 0, 128)}

Images == {[width |-> w, height |-> h, rgba |-> c, mark |-> NULL] :
             w \in 1..MaxImgW, h \in 1..MaxImgH, c \in ImageValues}

\* the sprite sheets: up to MaxSheetSide a side, one pixel marked
SheetImages ==
    UNION {{[width |-> w, height |-> h, rgba |-> c, mark |-> m] :
               c \in SheetValues,
               m \in {Pt(x, y) : x \in 0..(w - 1), y \in 0..(h - 1)}} :
           w \in 1..MaxSheetSide, h \in 1..MaxSheetSide}

\* the colour read from pixel (x, y) of the image once it is drawn
ImagePixel(img, x, y) ==
    IF img.mark = Pt(x, y) THEN PixelColor(RGBA(0, 0, 255, 255))
    ELSE PixelColor(img.rgba)

\* Math.floor(a / b) for a >= 0 and b # 0
FloorDiv(a, b) == IF b > 0 THEN a \div b ELSE (0 - a) \div (0 - b)

\* The pixels read back with getImageData(0, 0, width, height) from the
\* canvas for tile (tx, ty): |width| * |height| cells; with a negative side
\* the rectangle read lies outside the canvas and is clear.
ImportTilePixels(img, frameSize, isSmallImage, tx, ty) ==
    LET drawX == (frameSize.width - img.width) \div 2
        drawY == (frameSize.height - img.height) \div 2
        cell(k) ==
            LET x == (k - 1) % frameSize.width
                y == (k - 1) \div frameSize.width
            IN  IF ~isSmallImage
                THEN ImagePixel(img, tx * frameSize.width + x,
                                     ty * frameSize.height + y)
                ELSE IF /\ x >= drawX /\ x < drawX + img.width
                        /\ y >= drawY /\ y < drawY + img.height
                     THEN ImagePixel(img, x - drawX, y - drawY)
                     ELSE PixelColor(RGBA(0, 0, 0, 0))
    IN  [k \in 1..(Abs(frameSize.width) * Abs(frameSize.height)) |->
            IF frameSize.width > 0 /\ frameSize.height > 0 THEN cell(k)
            ELSE PixelColor(RGBA(0, 0, 0, 0))]

\* the columns and rows of the grid of tiles; neither is ever 0
ImportCols(img, frameSize) ==
    IF img.width < frameSize.width \/ img.height < frameSize.height THEN 1
    ELSE FloorDiv(img.width, frameSize.width)
ImportRows(img, frameSize) ==
    IF img.width < frameSize.width \/ img.height < frameSize.height THEN 1
    ELSE FloorDiv(img.height, frameSize.height)

\* the number of tiles the two loops go through: none when cols or rows is
\* negative
TileCount(img, frameSize) ==
    IF ImportCols(img, frameSize) > 0 /\ ImportRows(img, frameSize) > 0
    THEN ImportCols(img, frameSize) * ImportRows(img, frameSize)
    ELSE 0

\* Date.now() is read once for every tile: the n readings of a call, the
\* clock at t when it begins, never going back and advancing by at most d
\* while the call runs.
RECURSIVE ClockReadings(_, _, _)
ClockReadings(n, t, d) ==
    IF n = 0 THEN {<<>>}
    ELSE UNION {{<<v>> \o r : r \in ClockReadings(n - 1, v, d - (v - t))} :
                v \in t..Min(MaxClock, t + d)}

\* The frames importSpriteSheet resolves with (img.onload), the clock reading
\* ts[k] at its k-th tile: the loop over y in rows and, inside it, x in cols
\* pushes tile (x, y) as frame y * cols + x.
importSpriteSheet(img, frameSize, ts) ==
    LET isSmallImage == img.width < frameSize.width \/ img.height < frameSize.height
        cols == ImportCols(img, frameSize)
        rows == ImportRows(img, frameSize)
    IN  [k \in 1..TileCount(img, frameSize) |->
            [id     |-> ImportFrameId(ts[k], k - 1),
             pixels |-> ImportTilePixels(img, frameSize, isSmallImage,
                                         (k - 1) % cols, (k - 1) \div cols)]]

(***************************************************************************)
(* Canvas: src/components/Canvas.tsx                                       *)
(***************************************************************************)
\* drawPixel without its bounds check.
DrawPixelNoBoundsCheck(point, currentPixels, tool, color, sz) ==
    LET idx == getIndex(point.x, point.y, sz.width)
    IN  IF tool = "pencil" THEN ArrSet(currentPixels, idx, color)
        ELSE IF tool = "eraser" THEN ArrSet(currentPixels, idx, "transparent")
        ELSE currentPixels
\* drawPixel writing the colour whatever the tool is.
DrawPixelIgnoresTool(point, currentPixels, tool, color, sz) ==
    IF point.x < 0 \/ point.x >= sz.width \/ point.y < 0 \/ point.y >= sz.height
    THEN currentPixels
    ELSE ArrSet(currentPixels, getIndex(point.x, point.y, sz.width), color)
\* drawPixel, with the tool, colour and size of the render
drawPixel(point, currentPixels, tool, color, sz) ==
    IF point.x < 0 \/ point.x >= sz.width \/ point.y < 0 \/ point.y >= sz.height
    THEN currentPixels
    ELSE LET idx == getIndex(point.x, point.y, sz.width)
         IN  IF tool = "pencil" THEN ArrSet(currentPixels, idx, color)
             ELSE IF tool = "eraser" THEN ArrSet(currentPixels, idx, "transparent")
             ELSE currentPixels

\* the for loop of handlePointerMove: drawPixel on every point of the line
RECURSIVE DrawLine(_, _, _, _, _)
DrawLine(linePoints, tempPixels, tool, color, sz) ==
    IF linePoints = <<>> THEN tempPixels
    ELSE DrawLine(Tail(linePoints),
                  drawPixel(Head(linePoints), tempPixels, tool, color, sz),
                  tool, color, sz)

\* `v || 'transparent'`
OrTransparent(v) == IF v = "undefined" \/ v = "" THEN "transparent" ELSE v

(***************************************************************************)
(* The events.  Ev(ev, A) is the handling of one event by A: it is counted *)
(* and recorded in lastEvent, and the pure-function processes stand still. *)
(* EvDialog(A) is the same for the opening or closing of a dialog, which   *)
(* is not counted.                                                         *)
(***************************************************************************)
\* The history variable: a pointer-down that takes the panning branch of
\* handlePointerDown begins a pan, a pointer-up ends it.
DragOriginAfter(ev) ==
    IF ev.type = "down" /\ (ev.button = 1 \/ activeTool = "move")
    THEN [pan |-> pan, client |-> ev.client]
    ELSE IF ev.type = "up" THEN NULL
    ELSE dragOrigin

\* setInterval(..., 1000 / fps): the delay is converted to an integer, NaN
\* (fps NaN), Infinity (fps 0) and -Infinity (fps -0) to 0, and a negative
\* delay is taken as 0
Period(f) ==
    IF f = NaN \/ f = MinusZero \/ f.val <= 0 THEN 0 ELSE 1000 \div f.val

\* The ms from one firing of the interval to the next: the delay, and at
\* least 4 ms once the timer has repeated more than 5 times (the nesting
\* rule of the timers of the platform); `fired` counts up to 6.
Due(t) ==
    LET TimerClamp == 4
        TimerNesting == 5
    IN  IF t.fired > TimerNesting /\ t.period < TimerClamp THEN TimerClamp
        ELSE t.period

\* The animation loop effect, as the render after an event runs it: its
\* dependencies are isPlaying, frames.length and fps.  When one of them has
\* changed the interval is cleared and, if playing, a new one is set.
EffectRuns ==
    \/ isPlaying' # isPlaying
    \/ Len(frames') # Len(frames)
    \/ fps' # fps

TimerAfter(ev) ==
    IF ~isPlaying' \/ ~Mounted' THEN NULL
    ELSE IF EffectRuns \/ timer = NULL
    THEN [period |-> Period(fps'), elapsed |-> 0, fired |-> 0]
    ELSE IF ev.type = "tick"
    THEN [timer EXCEPT !.elapsed = 0,
                       !.fired = Min(@ + 1, 6)]
    ELSE timer

\* The history of the interval in force: the run of consecutive ticks it has
\* fired, which begins again when the interval is set anew and when another
\* event moves the current index.
TickLogAfter(ev) ==
    IF ~isPlaying' \/ ~Mounted' THEN NULL
    ELSE IF ev.type = "tick" /\ tickLog # NULL /\ ~EffectRuns
    THEN [tickLog EXCEPT !.ticks = @ + 1]
    ELSE IF EffectRuns \/ tickLog = NULL \/ currentFrameIdx' # currentFrameIdx
    THEN [since |-> time, from |-> currentFrameIdx', ticks |-> 0]
    ELSE tickLog

\* The history of the stroke: the frames a pointer-down or pointer-move has
\* changed the pixels of.
StrokeFramesAfter(ev) ==
    LET changed == {frames[k].id :
                      k \in {j \in 1..Min(Len(frames), Len(frames')) :
                                frames'[j].pixels # frames[j].pixels}}
    IN  IF ev.type = "down" THEN changed
        ELSE IF ev.type = "move" THEN strokeFrames \cup changed
        ELSE strokeFrames

\* The dialogs are overlays over the whole window: while one is open the
\* pointer-down and wheel events of a pointer go to the overlay and not to
\* the canvas, and a click on a frame of the timeline (a div with onClick,
\* which no key reaches) goes to the overlay too.  A captured pointer's
\* moves and its pointer-up, and the controls reached with the keyboard, are
\* not stopped.
Reaches(ev) == ev.type \in {"down", "wheel", "selectFrame"} => NoModal

\* What handling the event ev with A does to the state.
Handled(ev, A) ==
    /\ Reaches(ev)
    /\ steps' = steps + 1
    /\ lastEvent' = ev
    /\ dragOrigin' = DragOriginAfter(ev)
    /\ A
    /\ IF ev.type = "fps" THEN TRUE ELSE fps' = fps
    /\ IF ev.type \in {"export", "exportDone", "exportFail"} THEN TRUE
       ELSE UNCHANGED exportVars
    /\ timer' = TimerAfter(ev)
    /\ tickLog' = TickLogAfter(ev)
    /\ time' = time
    /\ strokeFrames' = StrokeFramesAfter(ev)
    /\ UNCHANGED pureVars

\* An event of the user interface, a timer or a completion that sets state:
\* there is none once the render has thrown and the tree is unmounted.
Ev(ev, A) == Mounted /\ Handled(ev, A)

EvDialog(A) ==
    /\ Mounted
    /\ lastEvent' = [type |-> "modal"]
    /\ A
    /\ UNCHANGED <<steps, dragOrigin, pureVars, playVars, exportVars, strokeFrames>>

\* Pointer events carry the button, the client position and the grid point
\* getGridPoint maps that position to.
ClientPts == {Pt(0, 0), Pt(5, 3)}
\* left and middle; the handlers ignore every other button
Buttons == {0, 1}
\* The grid and a ring of out-of-bounds points around it.
RingPoints(sz) == {Pt(a, b) : a \in (0 - 1)..sz.width, b \in (0 - 1)..sz.height}
\* Two corners of the grid and two points outside it whose flat index falls
\* inside the array.
CornerPoints(sz) == {Pt(0, 0), Pt(sz.width - 1, sz.height - 1),
                     Pt(sz.width, 0), Pt(0 - 1, sz.height - 1)}

\* handlePointerDown without the Bucket's setIsDrawing(false).
HandlePointerDownBucketDraws(e) ==
    /\ IF e.button = 1 \/ activeTool = "move"
       THEN /\ isPanning' = TRUE
            /\ dragStart' = e.client
            /\ UNCHANGED <<isDrawing, lastDrawPoint, frames, primaryColor>>
       ELSE IF e.button = 0 /\ InBounds(e.point, size)
       THEN IF activeTool = "bucket"
            THEN LET idx         == getIndex(e.point.x, e.point.y, size.width)
                     targetColor == OrTransparent(At(pixels, idx))
                 IN  /\ frames' =
                          IF targetColor # primaryColor
                          THEN handleUpdatePixels(frames, currentFrameIdx,
                                   floodFill(pixels, e.point, targetColor,
                                             primaryColor, size))
                          ELSE frames
                     /\ isDrawing' = TRUE
                     /\ lastDrawPoint' = e.point
                     /\ UNCHANGED <<isPanning, dragStart, primaryColor>>
            ELSE IF activeTool = "picker"
            THEN LET picked == At(pixels, getIndex(e.point.x, e.point.y, size.width))
                 IN  /\ primaryColor' =
                          IF picked \notin {"undefined", "", "transparent"}
                          THEN picked ELSE primaryColor
                     /\ isDrawing' = FALSE
                     /\ lastDrawPoint' = e.point
                     /\ UNCHANGED <<isPanning, dragStart, frames>>
            ELSE /\ isDrawing' = TRUE
                 /\ lastDrawPoint' = e.point
                 /\ frames' = handleUpdatePixels(frames, currentFrameIdx,
                                  drawPixel(e.point, pixels, activeTool,
                                            primaryColor, size))
                 /\ UNCHANGED <<isPanning, dragStart, primaryColor>>
       ELSE UNCHANGED <<isDrawing, isPanning, lastDrawPoint, dragStart, frames,
                        primaryColor>>
    /\ UNCHANGED <<size, currentFrameIdx, activeTool, isPlaying, modalVars,
                   asyncVars, now, pan, zoom>>
\* handlePointerDown without the picker's `picked !== 'transparent'`.
HandlePointerDownPicksAny(e) ==
    /\ IF e.button = 1 \/ activeTool = "move"
       THEN /\ isPanning' = TRUE
            /\ dragStart' = e.client
            /\ UNCHANGED <<isDrawing, lastDrawPoint, frames, primaryColor>>
       ELSE IF e.button = 0 /\ InBounds(e.point, size)
       THEN IF activeTool = "bucket"
            THEN LET idx         == getIndex(e.point.x, e.point.y, size.width)
                     targetColor == OrTransparent(At(pixels, idx))
                 IN  /\ frames' =
                          IF targetColor # primaryColor
                          THEN handleUpdatePixels(frames, currentFrameIdx,
                                   floodFill(pixels, e.point, targetColor,
                                             primaryColor, size))
                          ELSE frames
                     /\ isDrawing' = FALSE
                     /\ lastDrawPoint' = e.point
                     /\ UNCHANGED <<isPanning, dragStart, primaryColor>>
            ELSE IF activeTool = "picker"
            THEN LET picked == At(pixels, getIndex(e.point.x, e.point.y, size.width))
                 IN  /\ primaryColor' =
                          IF picked \notin {"undefined", ""}
                          THEN picked ELSE primaryColor
                     /\ isDrawing' = FALSE
                     /\ lastDrawPoint' = e.point
                     /\ UNCHANGED <<isPanning, dragStart, frames>>
            ELSE /\ isDrawing' = TRUE
                 /\ lastDrawPoint' = e.point
                 /\ frames' = handleUpdatePixels(frames, currentFrameIdx,
                                  drawPixel(e.point, pixels, activeTool,
                                            primaryColor, size))
                 /\ UNCHANGED <<isPanning, dragStart, primaryColor>>
       ELSE UNCHANGED <<isDrawing, isPanning, lastDrawPoint, dragStart, frames,
                        primaryColor>>
    /\ UNCHANGED <<size, currentFrameIdx, activeTool, isPlaying, modalVars,
                   asyncVars, now, pan, zoom>>
handlePointerDown(e) ==
    /\ IF e.button = 1 \/ activeTool = "move"
       THEN /\ isPanning' = TRUE
            /\ dragStart' = e.client
            /\ UNCHANGED <<isDrawing, lastDrawPoint, frames, primaryColor>>
       ELSE IF e.button = 0 /\ InBounds(e.point, size)
       THEN IF activeTool = "bucket"
            THEN LET idx         == getIndex(e.point.x, e.point.y, size.width)
                     targetColor == OrTransparent(At(pixels, idx))
                 IN  /\ frames' =
                          IF targetColor # primaryColor
                          THEN handleUpdatePixels(frames, currentFrameIdx,
                                   floodFill(pixels, e.point, targetColor,
                                             primaryColor, size))
                          ELSE frames
                     /\ isDrawing' = FALSE
                     /\ lastDrawPoint' = e.point
                     /\ UNCHANGED <<isPanning, dragStart, primaryColor>>
            ELSE IF activeTool = "picker"
            THEN LET picked == At(pixels, getIndex(e.point.x, e.point.y, size.width))
                 IN  /\ primaryColor' =
                          IF picked \notin {"undefined", "", "transparent"}
                          THEN picked ELSE primaryColor
                     /\ isDrawing' = FALSE
                     /\ lastDrawPoint' = e.point
                     /\ UNCHANGED <<isPanning, dragStart, frames>>
            ELSE /\ isDrawing' = TRUE
                 /\ lastDrawPoint' = e.point
                 /\ frames' = handleUpdatePixels(frames, currentFrameIdx,
                                  drawPixel(e.point, pixels, activeTool,
                                            primaryColor, size))
                 /\ UNCHANGED <<isPanning, dragStart, primaryColor>>
       ELSE UNCHANGED <<isDrawing, isPanning, lastDrawPoint, dragStart, frames,
                        primaryColor>>
    /\ UNCHANGED <<size, currentFrameIdx, activeTool, isPlaying, modalVars,
                   asyncVars, now, pan, zoom>>

\* handlePointerMove without setDragStart in its panning branch.
HandlePointerMoveKeepsAnchor(e) ==
    /\ IF isPanning /\ dragStart # NULL
       THEN /\ pan' = Pt(pan.x + (e.client.x - dragStart.x),
                         pan.y + (e.client.y - dragStart.y))
            /\ UNCHANGED <<frames, lastDrawPoint, dragStart>>
       ELSE IF isDrawing /\ lastDrawPoint # NULL
       THEN /\ frames' = handleUpdatePixels(frames, currentFrameIdx,
                             DrawLine(getLinePixels(lastDrawPoint, e.point),
                                      pixels, activeTool, primaryColor, size))
            /\ lastDrawPoint' = e.point
            /\ UNCHANGED <<pan, dragStart>>
       ELSE UNCHANGED <<frames, lastDrawPoint, pan, dragStart>>
    /\ UNCHANGED <<size, currentFrameIdx, toolVars, isPlaying, modalVars,
                   asyncVars, now, isDrawing, isPanning, zoom>>
handlePointerMove(e) ==
    /\ IF isPanning /\ dragStart # NULL
       THEN /\ pan' = Pt(pan.x + (e.client.x - dragStart.x),
                         pan.y + (e.client.y - dragStart.y))
            /\ dragStart' = e.client
            /\ UNCHANGED <<frames, lastDrawPoint>>
       ELSE IF isDrawing /\ lastDrawPoint # NULL
       THEN /\ frames' = handleUpdatePixels(frames, currentFrameIdx,
                             DrawLine(getLinePixels(lastDrawPoint, e.point),
                                      pixels, activeTool, primaryColor, size))
            /\ lastDrawPoint' = e.point
            /\ UNCHANGED <<pan, dragStart>>
       ELSE UNCHANGED <<frames, lastDrawPoint, pan, dragStart>>
    /\ UNCHANGED <<size, currentFrameIdx, toolVars, isPlaying, modalVars,
                   asyncVars, now, isDrawing, isPanning, zoom>>

\* handlePointerUp without setLastDrawPoint(null).
HandlePointerUpKeepsPoint ==
    /\ isDrawing' = FALSE
    /\ isPanning' = FALSE
    /\ dragStart' = NULL
    /\ UNCHANGED <<projVars, toolVars, isPlaying, modalVars, asyncVars, now, pan,
                   zoom, lastDrawPoint>>
handlePointerUp ==
    /\ isDrawing' = FALSE
    /\ isPanning' = FALSE
    /\ dragStart' = NULL
    /\ lastDrawPoint' = NULL
    /\ UNCHANGED <<projVars, toolVars, isPlaying, modalVars, asyncVars, now, pan,
                   zoom>>

\* ---- zoom.  The code multiplies and divides a float by 1.1; the model
\* keeps the exact value base * (11/10)^exp, base being 20 (the initial zoom)
\* or one of the two limits the value was last clamped to.  The comparisons
\* with the limits are exact, on naturals kept as sequences of digits in base
\* 1000, least significant first.
InitialZoom == [base |-> 20, exp |-> 0]

RECURSIVE BigTimes(_, _, _)
BigTimes(a, m, carry) ==
    IF a = <<>>
    THEN IF carry = 0 THEN <<>>
         ELSE <<carry % 1000>> \o BigTimes(<<>>, m, carry \div 1000)
    ELSE LET v == Head(a) * m + carry
         IN  <<v % 1000>> \o BigTimes(Tail(a), m, v \div 1000)

RECURSIVE BigTimesPow(_, _, _)
BigTimesPow(a, m, k) ==
    IF k = 0 THEN a ELSE BigTimesPow(BigTimes(a, m, 0), m, k - 1)

RECURSIVE BigLess(_, _)
BigLess(a, b) ==
    IF Len(a) # Len(b) THEN Len(a) < Len(b)
    ELSE IF a = <<>> THEN FALSE
    ELSE IF a[Len(a)] # b[Len(b)] THEN a[Len(a)] < b[Len(b)]
    ELSE BigLess(SubSeq(a, 1, Len(a) - 1), SubSeq(b, 1, Len(b) - 1))

\* z < n and z > n, for a zoom z and a natural n in 1..999
ZoomLess(z, n) ==
    IF z.exp >= 0
    THEN BigLess(BigTimesPow(<<z.base>>, 11, z.exp), BigTimesPow(<<n>>, 10, z.exp))
    ELSE BigLess(BigTimesPow(<<z.base>>, 10, 0 - z.exp),
                 BigTimesPow(<<n>>, 11, 0 - z.exp))
ZoomGreater(z, n) ==
    IF z.exp >= 0
    THEN BigLess(BigTimesPow(<<n>>, 10, z.exp), BigTimesPow(<<z.base>>, 11, z.exp))
    ELSE BigLess(BigTimesPow(<<n>>, 11, 0 - z.exp),
                 BigTimesPow(<<z.base>>, 10, 0 - z.exp))

\* The new zoom taken as it is.
ClampZoomNone(newZoom) == newZoom
\* Math.max(1, Math.min(200, newZoom))
ClampZoom(newZoom) ==
    IF ZoomGreater(newZoom, 200) THEN [base |-> 200, exp |-> 0]
    ELSE IF ZoomLess(newZoom, 1) THEN [base |-> 1, exp |-> 0]
    ELSE newZoom

\* the wheel listener; direction is -Math.sign(e.deltaY)
handleWheel(direction) ==
    /\ zoom' = ClampZoom([zoom EXCEPT !.exp = IF direction > 0 THEN @ + 1 ELSE @ - 1])
    /\ UNCHANGED <<projVars, toolVars, isPlaying, modalVars, asyncVars, now,
                   isDrawing, isPanning, lastDrawPoint, dragStart, pan>>

\* the tool buttons and the keyboard shortcuts
setActiveTool(t) ==
    /\ activeTool' = t
    /\ UNCHANGED <<projVars, primaryColor, isPlaying, modalVars, asyncVars, now,
                   canvasVars>>

\* the palette
setPrimaryColor(c) ==
    /\ primaryColor' = c
    /\ UNCHANGED <<projVars, activeTool, isPlaying, modalVars, asyncVars, now,
                   canvasVars>>

\* the play button and the space key
TogglePlay ==
    /\ isPlaying' = ~isPlaying
    /\ UNCHANGED <<projVars, toolVars, modalVars, asyncVars, now, canvasVars>>

\* the fps field of the timeline
setFps(f) ==
    /\ fps' = f
    /\ UNCHANGED <<projVars, toolVars, isPlaying, modalVars, asyncVars, now, canvasVars>>

\* The interval callback advancing the index without wrapping.
PlaybackTickNoWrap ==
    /\ isPlaying
    /\ currentFrameIdx' = currentFrameIdx + 1
    /\ UNCHANGED <<size, frames, toolVars, isPlaying, modalVars, asyncVars, now,
                   canvasVars>>
\* the interval callback of the animation loop
PlaybackTick ==
    /\ isPlaying
    /\ currentFrameIdx' = (currentFrameIdx + 1) % Len(frames)
    /\ UNCHANGED <<size, frames, toolVars, isPlaying, modalVars, asyncVars, now,
                   canvasVars>>

\* New Frame: createEmptyGrid throws before any state is set when the size
\* has one negative side
handleAddFrame ==
    /\ Len(frames) < MaxFrames
    /\ IF InvalidArrayLength(size.width * size.height)
       THEN UNCHANGED <<frames, currentFrameIdx>>
       ELSE /\ frames' = Splice(frames, currentFrameIdx + 1,
                        [id     |-> FrameId(now),
                         pixels |-> createEmptyGrid(size.width, size.height)])
            /\ currentFrameIdx' = currentFrameIdx + 1
    /\ UNCHANGED <<size, toolVars, isPlaying, modalVars, asyncVars, now, canvasVars>>

handleDuplicateFrame ==
    /\ Len(frames) < MaxFrames
    /\ frames' = Splice(frames, currentFrameIdx + 1,
                        [id     |-> FrameId(now),
                         pixels |-> frames[currentFrameIdx + 1].pixels])
    /\ currentFrameIdx' = currentFrameIdx + 1
    /\ UNCHANGED <<size, toolVars, isPlaying, modalVars, asyncVars, now, canvasVars>>

\* handleDeleteFrame without `if (frames.length <= 1) return`.
DeleteFrameNoGuard ==
    /\ frames' = FilterOut(frames, currentFrameIdx)
    /\ currentFrameIdx' = Max(0, currentFrameIdx - 1)
    /\ UNCHANGED <<size, toolVars, isPlaying, modalVars, asyncVars, now, canvasVars>>
\* handleDeleteFrame without the Math.max(0, ...).
DeleteFrameIndexBelowZero ==
    /\ IF Len(frames) <= 1
       THEN UNCHANGED <<frames, currentFrameIdx>>
       ELSE /\ frames' = FilterOut(frames, currentFrameIdx)
            /\ currentFrameIdx' = currentFrameIdx - 1
    /\ UNCHANGED <<size, toolVars, isPlaying, modalVars, asyncVars, now, canvasVars>>
handleDeleteFrame ==
    /\ IF Len(frames) <= 1
       THEN UNCHANGED <<frames, currentFrameIdx>>
       ELSE /\ frames' = FilterOut(frames, currentFrameIdx)
            /\ currentFrameIdx' = Max(0, currentFrameIdx - 1)
    /\ UNCHANGED <<size, toolVars, isPlaying, modalVars, asyncVars, now, canvasVars>>

\* a click on a frame of the timeline
selectFrame(idx) ==
    /\ currentFrameIdx' = idx
    /\ UNCHANGED <<size, frames, toolVars, isPlaying, modalVars, asyncVars, now,
                   canvasVars>>

OpenNewProjectModal ==
    /\ isNewProjectModalOpen' = TRUE
    /\ UNCHANGED <<projVars, toolVars, isPlaying, isAIModalOpen, asyncVars, now,
                   canvasVars>>

CloseNewProjectModal ==
    /\ isNewProjectModalOpen
    /\ isNewProjectModalOpen' = FALSE
    /\ UNCHANGED <<projVars, toolVars, isPlaying, isAIModalOpen, asyncVars, now,
                   canvasVars>>

\* Create, with the size entered in the dialog: setSize is called, then
\* createEmptyGrid throws when the size has one negative side and the
\* handler ends there
handleNewProject(newProjectSize) ==
    /\ isNewProjectModalOpen
    /\ size' = newProjectSize
    /\ IF InvalidArrayLength(newProjectSize.width * newProjectSize.height)
       THEN UNCHANGED <<frames, currentFrameIdx, isNewProjectModalOpen>>
       ELSE /\ frames' = <<[id     |-> FrameId(now),
                           pixels |-> createEmptyGrid(newProjectSize.width,
                                                      newProjectSize.height)]>>
            /\ currentFrameIdx' = 0
            /\ isNewProjectModalOpen' = FALSE
    /\ UNCHANGED <<toolVars, isPlaying, isAIModalOpen, asyncVars, now, canvasVars>>

\* ---- export: handleExport('gif') and createGIF (src/utils/exportUtils.ts)
\* ctx.fillStyle = color: the canvas parses the text as a CSS colour and keeps
\* it as '#rrggbb' in lower case; a text that is no colour is ignored and the
\* style stays what it was.  The colour texts told apart are '#rrggbb' and
\* '#rgb' in either case and a few colour names; CssColor is "" for any
\* other text.
CssColor(text) ==
    LET HexChars ==
            <<"0", "1", "2", "3", "4", "5", "6", "7", "8", "9",
              "a", "b", "c", "d", "e", "f", "A", "B", "C", "D", "E", "F">>
        HexValue(ch) ==
            IF \E n \in 1..16 : HexChars[n] = ch
            THEN (CHOOSE n \in 1..16 : HexChars[n] = ch) - 1
            ELSE IF \E n \in 17..22 : HexChars[n] = ch
            THEN (CHOOSE n \in 17..22 : HexChars[n] = ch) - 7
            ELSE 0 - 1
        IsHexText ==
            /\ Len(text) >= 1
            /\ Head(text) = "#"
            /\ \A i \in 2..Len(text) : HexValue(SubSeq(text, i, i)) >= 0
        HexLower(i) == HexChars[HexValue(SubSeq(text, i, i)) + 1]
        NamedColors ==
            [black |-> "#000000", white |-> "#ffffff", red |-> "#ff0000",
             lime |-> "#00ff00", blue |-> "#0000ff", green |-> "#008000",
             yellow |-> "#ffff00"]
    IN  IF IsHexText /\ Len(text) = 7
        THEN "#" \o HexLower(2) \o HexLower(3) \o HexLower(4)
                 \o HexLower(5) \o HexLower(6) \o HexLower(7)
        ELSE IF IsHexText /\ Len(text) = 4
        THEN "#" \o HexLower(2) \o HexLower(2) \o HexLower(3)
                 \o HexLower(3) \o HexLower(4) \o HexLower(4)
        ELSE IF text \in DOMAIN NamedColors THEN NamedColors[text]
        ELSE ""

\* a cell createGIF paints: `color && color !== 'transparent'`
Painted(color) == color \notin {"undefined", "", "transparent"}

\* The fill style of the canvas of one frame when the first n cells of the
\* grid have gone through the forEach: black on a new canvas, then the last
\* painted cell's colour that the canvas has taken.
RECURSIVE FillStyleAfter(_, _)
FillStyleAfter(px, n) ==
    IF n = 0 THEN "#000000"
    ELSE LET color == At(px, n - 1)
         IN  IF Painted(color) /\ CssColor(color) # ""
             THEN CssColor(color)
             ELSE FillStyleAfter(px, n - 1)

\* The canvas of one frame of the GIF, as getImageData(0, 0, width, height)
\* reads it: |width| * |height| cells.  The painted cells of the grid are
\* filled at getCoords(idx, size.width) with the fill style in force, the
\* others stay clear; a cell outside the canvas is not painted.  With a
\* negative side the rectangle read lies outside the canvas and is clear.
GifImage(px, sz) ==
    [k \in 1..(Abs(sz.width) * Abs(sz.height)) |->
        IF sz.width > 0 /\ sz.height > 0
           /\ Painted(At(px, k - 1))
           /\ getIndex(getCoords(k - 1, sz.width).x,
                       getCoords(k - 1, sz.width).y, sz.width) = k - 1
        THEN FillStyleAfter(px, k)
        ELSE "transparent"]

\* Math.round((1000 / fps) / 10), which is floor(100 / fps + 1/2): NaN for
\* fps NaN, Infinity for fps 0, -Infinity for fps -0, and -0 for a quotient
\* from -1/2 up to 0 (fps of -200 and below)
GifDelay(f) ==
    LET Infinity == [inf |-> TRUE]
        MinusInfinity == [neginf |-> TRUE]
    IN  IF f = NaN THEN NaN
        ELSE IF f = MinusZero THEN MinusInfinity
        ELSE IF f.val = 0 THEN Infinity
        ELSE IF f.val <= 0 - 200 THEN MinusZero
        ELSE Num(FloorDiv(200 + f.val, 2 * f.val))

\* the frames createGIF writes
createGIF(fr, sz, f) ==
    [k \in 1..Len(fr) |-> [image |-> GifImage(fr[k].pixels, sz),
                           delay |-> GifDelay(f)]]

\* Export GIF: createGIF is called with the render's frames, size and fps and
\* suspends on the import of the encoder
handleExport ==
    /\ MorePending(exportCalls)
    /\ exportCalls' = AddCall(exportCalls,
                              [frames |-> frames, size |-> size, fps |-> fps])
    /\ exported' = exported
    /\ UNCHANGED <<projVars, toolVars, isPlaying, modalVars, asyncVars, now,
                   canvasVars>>

\* the encoder is loaded in the call c: createGIF encodes its arguments and
\* the blob is downloaded
ExportResolved(c) ==
    /\ BagIn(c, exportCalls)
    /\ exported' = [frames |-> createGIF(c.frames, c.size, c.fps)]
    /\ exportCalls' = DropCall(exportCalls, c)
    /\ UNCHANGED <<projVars, toolVars, isPlaying, modalVars, asyncVars, now,
                   canvasVars>>

\* the encoder cannot be loaded: createGIF returns null, nothing is downloaded
ExportRejected(c) ==
    /\ BagIn(c, exportCalls)
    /\ exported' = exported
    /\ exportCalls' = DropCall(exportCalls, c)
    /\ UNCHANGED <<projVars, toolVars, isPlaying, modalVars, asyncVars, now,
                   canvasVars>>

\* ---- import: handleFileChange, then reader.onload and importSpriteSheet
\* a file is chosen: the call closes over the render's size
handleFileChange ==
    /\ MorePending(importCalls)
    /\ importCalls' = AddCall(importCalls, [size |-> size])
    /\ UNCHANGED <<projVars, toolVars, isPlaying, modalVars, isGenerating, aiCalls,
                   now, canvasVars>>

\* importSpriteSheet resolves in the call c
ImportResolved(c, img, ts) ==
    /\ BagIn(c, importCalls)
    /\ LET importedFrames == importSpriteSheet(img, c.size, ts)
       IN  IF Len(importedFrames) > 0
           THEN frames' = importedFrames /\ currentFrameIdx' = 0
           ELSE UNCHANGED <<frames, currentFrameIdx>>
    /\ importCalls' = DropCall(importCalls, c)
    /\ now' = IF Len(ts) > 0 THEN ts[Len(ts)] ELSE now
    /\ UNCHANGED <<size, toolVars, isPlaying, modalVars, isGenerating, aiCalls,
                   canvasVars>>

\* the clock readings the import call c may get
ImportClocks(c, img) == ClockReadings(TileCount(img, c.size), now, MaxImportTicks)

\* The catch block going back to the first frame.
ImportRejectedResetsIndex(c) ==
    /\ BagIn(c, importCalls)
    /\ importCalls' = DropCall(importCalls, c)
    /\ currentFrameIdx' = 0
    /\ UNCHANGED <<size, frames, toolVars, isPlaying, modalVars, isGenerating,
                   aiCalls, now, canvasVars>>
\* the decode fails in the call c: the promise rejects and the catch block
\* reports it
ImportRejected(c) ==
    /\ BagIn(c, importCalls)
    /\ importCalls' = DropCall(importCalls, c)
    /\ UNCHANGED <<projVars, toolVars, isPlaying, modalVars, isGenerating, aiCalls,
                   now, canvasVars>>

\* ---- AI generation: handleGenerateAI and its continuations
OpenAIModal ==
    /\ isAIModalOpen' = TRUE
    /\ UNCHANGED <<projVars, toolVars, isPlaying, isNewProjectModalOpen, asyncVars,
                   now, canvasVars>>

CloseAIModal ==
    /\ isAIModalOpen
    /\ isAIModalOpen' = FALSE
    /\ UNCHANGED <<projVars, toolVars, isPlaying, isNewProjectModalOpen, asyncVars,
                   now, canvasVars>>

\* the calls of aiCalls that are in a phase
AICalls(phase) == {c \in BagToSet(aiCalls) : c.phase = phase}

\* Generate, a button of the dialog that is disabled while isGenerating: the
\* call closes over the render's frames, currentFrameIdx and size
handleGenerateAI ==
    /\ isAIModalOpen
    /\ ~isGenerating
    /\ MorePending(aiCalls)
    /\ isGenerating' = TRUE
    /\ aiCalls' = AddCall(aiCalls,
                          [phase |-> "awaiting", frames |-> frames,
                           idx |-> currentFrameIdx, size |-> size])
    /\ UNCHANGED <<projVars, toolVars, isPlaying, modalVars, importCalls, now,
                   canvasVars>>

\* generatePixelArt resolves in the call c: with an image url, whose image
\* begins to load, or with null
AIResolved(c, hasImage) ==
    /\ c \in AICalls("awaiting")
    /\ aiCalls' = IF hasImage
                  THEN AddCall(DropCall(aiCalls, c), [c EXCEPT !.phase = "loading"])
                  ELSE DropCall(aiCalls, c)
    /\ isGenerating' = FALSE
    /\ UNCHANGED <<projVars, toolVars, isPlaying, modalVars, importCalls, now,
                   canvasVars>>

\* generatePixelArt throws in the call c
AIRejected(c) ==
    /\ c \in AICalls("awaiting")
    /\ aiCalls' = DropCall(aiCalls, c)
    /\ isGenerating' = FALSE
    /\ UNCHANGED <<projVars, toolVars, isPlaying, modalVars, importCalls, now,
                   canvasVars>>

\* The pixels img.onload reads back with getImageData(0, 0, width, height)
\* from the image of value p drawn at the size sz: |width| * |height| cells;
\* with a negative side the rectangle read lies outside the canvas and is
\* clear.
AIPixels(sz, p) ==
    [k \in 1..(Abs(sz.width) * Abs(sz.height)) |->
        IF sz.width > 0 /\ sz.height > 0 THEN PixelColor(p)
        ELSE PixelColor(RGBA(0, 0, 0, 0))]

\* img.onload in the call c: the image, resized to the closure's size, has
\* the value p
AIImageLoaded(c, p) ==
    /\ c \in AICalls("loading")
    /\ frames' = handleUpdatePixels(c.frames, c.idx, AIPixels(c.size, p))
    /\ isAIModalOpen' = FALSE
    /\ aiCalls' = DropCall(aiCalls, c)
    /\ UNCHANGED <<size, currentFrameIdx, toolVars, isPlaying,
                   isNewProjectModalOpen, isGenerating, importCalls, now,
                   canvasVars>>

\* the image of the call c does not load: there is no img.onerror
AIImageError(c) ==
    /\ c \in AICalls("loading")
    /\ aiCalls' = DropCall(aiCalls, c)
    /\ UNCHANGED <<projVars, toolVars, isPlaying, modalVars, isGenerating,
                   importCalls, now, canvasVars>>

ClockAdvance ==
    /\ now < MaxClock
    /\ now' = now + 1
    /\ UNCHANGED <<projVars, toolVars, isPlaying, modalVars, asyncVars, canvasVars>>

(***************************************************************************)
(* Spec: the application, from its construction.                           *)
(***************************************************************************)
InitPure == line = Idle /\ fill = Idle /\ geom = Idle

\* fps is 12, no time has gone by, no export is pending, no stroke has begun;
\* the interval is there if the animation is playing.
InitPlayback ==
    /\ fps = Num(12)
    /\ time = 0
    /\ timer = IF isPlaying
               THEN [period |-> Period(Num(12)), elapsed |-> 0, fired |-> 0]
               ELSE NULL
    /\ tickLog = IF isPlaying
                 THEN [since |-> 0, from |-> currentFrameIdx, ticks |-> 0]
                 ELSE NULL
    /\ exportCalls = EmptyBag
    /\ exported = NULL
    /\ strokeFrames = {}

InitApp(sz, id) ==
    /\ size = sz
    /\ frames = <<[id |-> id, pixels |-> createEmptyGrid(sz.width, sz.height)]>>
    /\ currentFrameIdx = 0
    /\ activeTool = "pencil"
    /\ primaryColor = "#000000"
    /\ isPlaying = FALSE
    /\ isAIModalOpen = FALSE
    /\ isNewProjectModalOpen = FALSE
    /\ isGenerating = FALSE
    /\ aiCalls = EmptyBag
    /\ importCalls = EmptyBag
    /\ now = 1
    /\ isDrawing = FALSE
    /\ isPanning = FALSE
    /\ lastDrawPoint = NULL
    /\ dragStart = NULL
    /\ pan = Pt(0, 0)
    /\ zoom = InitialZoom
    /\ lastEvent = [type |-> "init"]
    /\ steps = 0
    /\ dragOrigin = NULL
    /\ InitPlayback

Init == InitPure /\ InitApp(Sz(DEFAULT_SIZE, DEFAULT_SIZE), INITIAL_FRAME_ID)

\* The sides a field of New Project hands over: parseInt(value) || 32
\* replaces NaN and 0 and nothing else, and nothing checks the sign.
NewSizes ==
    LET NewSides == ((0 - MaxNegSide)..MaxNewSide) \ {0}
    IN  {Sz(w, h) : w \in NewSides, h \in NewSides}
PointerEvents(points) ==
    {[button |-> b, client |-> c, point |-> p] :
        b \in Buttons, c \in ClientPts, p \in points}
MoveEvents(points) ==
    {[client |-> c, point |-> p] : c \in ClientPts, p \in points}

\* the run may handle one more counted event
More == steps < MaxSteps

PointerDown ==
    /\ More
    /\ \E e \in PointerEvents(CornerPoints(size)) :
           Ev([type |-> "down", point |-> e.point, button |-> e.button,
               client |-> e.client],
              handlePointerDown(e))
PointerMove ==
    /\ More
    /\ \E e \in MoveEvents(CornerPoints(size)) :
           Ev([type |-> "move", point |-> e.point], handlePointerMove(e))
PointerUp == More /\ Ev([type |-> "up"], handlePointerUp)
SelectTool ==
    /\ More
    /\ \E t \in Tools : Ev([type |-> "tool"], setActiveTool(t))
SelectColor ==
    /\ More
    /\ \E c \in Palette : Ev([type |-> "color"], setPrimaryColor(c))
\* texts of the colour field: colours, a colour short of a digit, a colour
\* name, the empty text
TextValues == Palette \cup {"#00000", "red", ""}

ColorText ==
    /\ More
    /\ \E c \in TextValues :
         Ev([type |-> "colorText", value |-> c], setPrimaryColor(c))

Play == More /\ Ev([type |-> "play"], TogglePlay)
Tick == More /\ Ev([type |-> "tick"], PlaybackTick)
\* the project as the event finds it
Before == [frames |-> frames, idx |-> currentFrameIdx]
\* what a Delete Frame would undo: the project before the insertion, when the
\* event just handled was one
Undo ==
    IF lastEvent.type \in {"addFrame", "duplicateFrame"} THEN lastEvent.before
    ELSE NULL

AddFrame == More /\ Ev([type |-> "addFrame", before |-> Before], handleAddFrame)
DuplicateFrame ==
    More /\ Ev([type |-> "duplicateFrame", before |-> Before], handleDuplicateFrame)
DeleteFrame == More /\ Ev([type |-> "deleteFrame", undo |-> Undo], handleDeleteFrame)
SelectFrame ==
    /\ More
    /\ \E i \in 0..(Len(frames) - 1) : Ev([type |-> "selectFrame"], selectFrame(i))
NewProjectOpen == EvDialog(OpenNewProjectModal)
NewProjectCancel == EvDialog(CloseNewProjectModal)
NewProject ==
    /\ More
    /\ \E sz \in NewSizes : Ev([type |-> "newProject"], handleNewProject(sz))
ImportStart == More /\ Ev([type |-> "importStart"], handleFileChange)
ImportDone ==
    /\ More
    /\ \E c \in BagToSet(importCalls), img \in Images :
         \E ts \in ImportClocks(c, img) :
           Ev([type |-> "import", call |-> c, img |-> img, clock |-> ts],
              ImportResolved(c, img, ts))
ImportFail ==
    /\ More
    /\ \E c \in BagToSet(importCalls) :
         Ev([type |-> "importFail", call |-> c], ImportRejected(c))
AIOpen == EvDialog(OpenAIModal)
AIClose == EvDialog(CloseAIModal)
AIStart == More /\ Ev([type |-> "aiStart"], handleGenerateAI)
AIResponse ==
    /\ More
    /\ \E c \in AICalls("awaiting"), b \in BOOLEAN :
         Ev([type |-> "aiResponse", call |-> c, image |-> b], AIResolved(c, b))
AIFail ==
    /\ More
    /\ \E c \in AICalls("awaiting") :
         Ev([type |-> "aiFail", call |-> c], AIRejected(c))
AIDone ==
    /\ More
    /\ \E c \in AICalls("loading"), p \in ImageValues :
         Ev([type |-> "ai", call |-> c], AIImageLoaded(c, p))
AIImageFail ==
    /\ More
    /\ \E c \in AICalls("loading") :
         Ev([type |-> "aiImageFail", call |-> c], AIImageError(c))
Clock == More /\ Ev([type |-> "clock"], ClockAdvance)

Next ==
    \/ PointerDown \/ PointerMove \/ PointerUp
    \/ SelectTool \/ SelectColor
    \/ Play \/ Tick
    \/ AddFrame \/ DuplicateFrame \/ DeleteFrame \/ SelectFrame
    \/ NewProjectOpen \/ NewProjectCancel \/ NewProject
    \/ ImportStart \/ ImportDone \/ ImportFail
    \/ AIOpen \/ AIClose \/ AIStart \/ AIResponse \/ AIFail \/ AIDone
    \/ AIImageFail
    \/ Clock

Spec == Init /\ [][Next]_vars

(***************************************************************************)
(* SpecLine: getLinePixels on every start and end within the bounds, one   *)
(* loop iteration per step.  FairSpecLine adds that a running loop goes on.*)
(***************************************************************************)
InitIdleApp == InitApp(Sz(DEFAULT_SIZE, DEFAULT_SIZE), INITIAL_FRAME_ID)

InitLine ==
    /\ line \in {LineStart(s, e) : s \in LinePoints, e \in LinePoints}
    /\ fill = Idle
    /\ geom = Idle
    /\ InitIdleApp

LineStep ==
    /\ line.pc = "loop"
    /\ line' = LineIter(line)
    /\ UNCHANGED <<fill, geom, appVars>>

SpecLine == InitLine /\ [][LineStep]_vars
FairSpecLine == SpecLine /\ WF_vars(LineStep)

(***************************************************************************)
(* SpecFill: floodFill on every grid, start, target and fill colour within *)
(* the bounds, one loop iteration per step; and beside it the application  *)
(* holding the same grid, with the Bucket tool and the fill colour as the  *)
(* active colour, where the pointer goes down once on the start point.     *)
(***************************************************************************)
InitFill ==
    /\ line = Idle
    /\ geom = Idle
    /\ \E sz \in FillSizes :
         \E px \in GridsOf(sz, FillColors) :
           \E start \in FillStarts(sz) :
             \E targetColor \in FillColors, fillColor \in FillColors :
               /\ fill = FloodCall(px, start, targetColor, fillColor, sz)
               /\ size = sz
               /\ frames = <<[id |-> FrameId(1), pixels |-> px]>>
               /\ primaryColor = fillColor
    /\ currentFrameIdx = 0
    /\ activeTool = "bucket"
    /\ isPlaying = FALSE
    /\ isAIModalOpen = FALSE
    /\ isNewProjectModalOpen = FALSE
    /\ isGenerating = FALSE
    /\ aiCalls = EmptyBag
    /\ importCalls = EmptyBag
    /\ now = 1
    /\ isDrawing = FALSE
    /\ isPanning = FALSE
    /\ lastDrawPoint = NULL
    /\ dragStart = NULL
    /\ pan = Pt(0, 0)
    /\ zoom = InitialZoom
    /\ lastEvent = [type |-> "init"]
    /\ steps = 0
    /\ dragOrigin = NULL
    /\ InitPlayback

FloodStep ==
    /\ fill.pc # "done"
    /\ fill' = FloodIter(fill)
    /\ UNCHANGED <<line, geom, appVars>>

BucketDown ==
    /\ steps = 0
    /\ LET e == [button |-> 0, client |-> Pt(0, 0), point |-> fill.start]
       IN  /\ Mounted
           /\ NoModal
           /\ steps' = steps + 1
           /\ lastEvent' = [type |-> "down", point |-> e.point, button |-> e.button,
                             client |-> e.client]
           /\ dragOrigin' = dragOrigin
           /\ handlePointerDown(e)
           /\ strokeFrames' = StrokeFramesAfter([type |-> "down"])
           /\ UNCHANGED <<pureVars, playVars, exportVars>>

NextFill == FloodStep \/ BucketDown

SpecFill == InitFill /\ [][NextFill]_vars

\* floodFill is synchronous: once called it runs on
FairSpecFill == SpecFill /\ WF_vars(FloodStep)

(***************************************************************************)
(* SpecFillAny: floodFill on the same inputs, any pending point of the     *)
(* work-list taken at each iteration.                                      *)
(***************************************************************************)
FloodStepAny ==
    /\ fill.pc # "done"
    /\ IF fill.pc = "enter" THEN fill' = FloodEnter(fill)
       ELSE IF Len(fill.queue) = 0
       THEN fill' = [fill EXCEPT !.pc = "done", !.result = fill.newPixels]
       ELSE \E k \in 1..Len(fill.queue) : fill' = FloodTake(fill, k)
    /\ UNCHANGED <<line, geom, appVars>>

SpecFillAny == InitFill /\ [][FloodStepAny]_vars

(***************************************************************************)
(* SpecStroke: strokes on a StrokeSide x StrokeSide project of two frames, *)
(* the pointer going to points of the grid and of the ring around it,      *)
(* while the animation may be playing.                                     *)
(***************************************************************************)
StrokeSize == Sz(StrokeSide, StrokeSide)
\* the first two and the last rows and columns, and the ring outside
StrokeCoords == {0 - 1, 0, 1, StrokeSide - 1, StrokeSide}
StrokePoints == {Pt(a, b) : a \in StrokeCoords, b \in StrokeCoords}

InitStroke ==
    /\ InitPure
    /\ size = StrokeSize
    /\ \E c \in {"transparent", "#ff0000"} :
         frames = <<[id |-> FrameId(1),
                     pixels |-> [k \in 1..(StrokeSide * StrokeSide) |-> c]],
                    [id |-> FrameId(2),
                     pixels |-> createEmptyGrid(StrokeSide, StrokeSide)]>>
    /\ currentFrameIdx = 0
    /\ activeTool \in {"pencil", "eraser"}
    /\ primaryColor = "#000000"
    /\ isPlaying \in BOOLEAN
    /\ isAIModalOpen = FALSE
    /\ isNewProjectModalOpen = FALSE
    /\ isGenerating = FALSE
    /\ aiCalls = EmptyBag
    /\ importCalls = EmptyBag
    /\ now = 2
    /\ isDrawing = FALSE
    /\ isPanning = FALSE
    /\ lastDrawPoint = NULL
    /\ dragStart = NULL
    /\ pan = Pt(0, 0)
    /\ zoom = InitialZoom
    /\ lastEvent = [type |-> "init"]
    /\ steps = 0
    /\ dragOrigin = NULL
    /\ InitPlayback

MoreStroke == steps < MaxStrokeSteps

StrokeDown ==
    /\ MoreStroke
    /\ \E p \in StrokePoints :
           Ev([type |-> "down", point |-> p, button |-> 0, client |-> Pt(0, 0)],
              handlePointerDown([button |-> 0, client |-> Pt(0, 0), point |-> p]))
StrokeMove ==
    /\ MoreStroke
    /\ \E p \in StrokePoints :
           Ev([type |-> "move", point |-> p],
              handlePointerMove([client |-> Pt(0, 0), point |-> p]))
StrokeUp == MoreStroke /\ Ev([type |-> "up"], handlePointerUp)
StrokeTick == MoreStroke /\ Ev([type |-> "tick"], PlaybackTick)

NextStroke == StrokeDown \/ StrokeMove \/ StrokeUp \/ StrokeTick

SpecStroke == InitStroke /\ [][NextStroke]_vars

(***************************************************************************)
(* SpecCanvas: the drawing controller with every tool, both buttons, the   *)
(* wheel and the tool shortcuts, on a project of two frames whose first    *)
(* frame is empty or has an opaque cell in its first and in its last cell. *)
(***************************************************************************)
CanvasGrids(sz) ==
    {createEmptyGrid(sz.width, sz.height),
     [k \in 1..(sz.width * sz.height) |->
         IF k = 1 THEN "#ff0000"
         ELSE IF k = sz.width * sz.height THEN "#000000"
         ELSE "transparent"]}

InitCanvas ==
    /\ InitPure
    /\ size = Sz(DEFAULT_SIZE, DEFAULT_SIZE)
    /\ \E g \in CanvasGrids(Sz(DEFAULT_SIZE, DEFAULT_SIZE)) :
         frames = <<[id |-> INITIAL_FRAME_ID, pixels |-> g],
                    [id |-> FrameId(1),
                     pixels |-> createEmptyGrid(DEFAULT_SIZE, DEFAULT_SIZE)]>>
    /\ currentFrameIdx = 0
    /\ activeTool \in Tools
    /\ primaryColor = "#000000"
    /\ isPlaying = FALSE
    /\ isAIModalOpen = FALSE
    /\ isNewProjectModalOpen = FALSE
    /\ isGenerating = FALSE
    /\ aiCalls = EmptyBag
    /\ importCalls = EmptyBag
    /\ now = 2
    /\ isDrawing = FALSE
    /\ isPanning = FALSE
    /\ lastDrawPoint = NULL
    /\ dragStart = NULL
    /\ pan = Pt(0, 0)
    /\ zoom = InitialZoom
    /\ lastEvent = [type |-> "init"]
    /\ steps = 0
    /\ dragOrigin = NULL
    /\ InitPlayback

MoreCanvas == steps < MaxCanvasSteps

CanvasDown ==
    /\ MoreCanvas
    /\ \E e \in PointerEvents(CornerPoints(size)) :
           Ev([type |-> "down", point |-> e.point, button |-> e.button,
               client |-> e.client],
              handlePointerDown(e))
CanvasMove ==
    /\ MoreCanvas
    /\ \E e \in MoveEvents(CornerPoints(size)) :
           Ev([type |-> "move", point |-> e.point, client |-> e.client],
              handlePointerMove(e))
CanvasUp == MoreCanvas /\ Ev([type |-> "up"], handlePointerUp)
CanvasTool ==
    /\ MoreCanvas
    /\ \E t \in Tools : Ev([type |-> "tool"], setActiveTool(t))
CanvasWheel ==
    /\ MoreCanvas
    /\ \E d \in {0 - 1, 0, 1} : Ev([type |-> "wheel"], handleWheel(d))

NextCanvas == CanvasDown \/ CanvasMove \/ CanvasUp \/ CanvasTool \/ CanvasWheel

SpecCanvas == InitCanvas /\ [][NextCanvas]_vars

(***************************************************************************)
(* SpecDup: a project of one frame whose frame is duplicated, and then the *)
(* edits of the two frames: Pencil, Eraser and Bucket pointer-downs on the *)
(* frame selected in the timeline, and AI generations.                     *)
(***************************************************************************)
InitDup ==
    /\ InitPure
    /\ size = Sz(DEFAULT_SIZE, DEFAULT_SIZE)
    /\ \E g \in CanvasGrids(Sz(DEFAULT_SIZE, DEFAULT_SIZE)) :
         frames = <<[id |-> INITIAL_FRAME_ID, pixels |-> g]>>
    /\ currentFrameIdx = 0
    /\ activeTool \in {"pencil", "eraser", "bucket"}
    /\ primaryColor = "#000000"
    /\ isPlaying = FALSE
    /\ isAIModalOpen = FALSE
    /\ isNewProjectModalOpen = FALSE
    /\ isGenerating = FALSE
    /\ aiCalls = EmptyBag
    /\ importCalls = EmptyBag
    /\ now = 1
    /\ isDrawing = FALSE
    /\ isPanning = FALSE
    /\ lastDrawPoint = NULL
    /\ dragStart = NULL
    /\ pan = Pt(0, 0)
    /\ zoom = InitialZoom
    /\ lastEvent = [type |-> "init"]
    /\ steps = 0
    /\ dragOrigin = NULL
    /\ InitPlayback

\* the duplication is done and the run may handle one more event
MoreDup == steps >= 1 /\ steps < MaxDupSteps

DupDuplicate ==
    /\ steps = 0
    /\ Ev([type |-> "duplicateFrame"], handleDuplicateFrame)
DupDown ==
    /\ MoreDup
    /\ \E p \in {Pt(0, 0), Pt(size.width - 1, size.height - 1)} :
           Ev([type |-> "down", point |-> p, button |-> 0, client |-> Pt(0, 0)],
              handlePointerDown([button |-> 0, client |-> Pt(0, 0), point |-> p]))
DupUp == MoreDup /\ isDrawing /\ Ev([type |-> "up"], handlePointerUp)
DupSelectFrame ==
    /\ MoreDup
    /\ \E i \in 0..(Len(frames) - 1) : Ev([type |-> "selectFrame"], selectFrame(i))
DupAIOpen == steps >= 1 /\ EvDialog(OpenAIModal)
DupAIClose == steps >= 1 /\ EvDialog(CloseAIModal)
DupAIStart == MoreDup /\ Ev([type |-> "aiStart"], handleGenerateAI)
DupAIResponse ==
    /\ MoreDup
    /\ \E c \in AICalls("awaiting") :
         Ev([type |-> "aiResponse", call |-> c], AIResolved(c, TRUE))
DupAIDone ==
    /\ MoreDup
    /\ \E c \in AICalls("loading") :
         Ev([type |-> "ai", call |-> c], AIImageLoaded(c, RGBA(255, 0, 0, 255)))

NextDup ==
    \/ DupDuplicate \/ DupDown \/ DupUp \/ DupSelectFrame
    \/ DupAIOpen \/ DupAIClose \/ DupAIStart \/ DupAIResponse \/ DupAIDone

SpecDup == InitDup /\ [][NextDup]_vars

(***************************************************************************)
(* SpecPlay: the animation loop in time.  The play button, the fps field   *)
(* and the interval callback, which fires when the period of the interval  *)
(* has gone by since it was set or last fired.                             *)
(***************************************************************************)
PlayLengths == {2, 5}
\* What the fps field hands to setFps, parseInt(e.target.value), nothing
\* checked: NaN when the field is empty, -0 for the text "-0", and the
\* integer typed, which the min and max of the field do not bound.
FpsValues == {NaN, MinusZero} \cup {Num(n) : n \in {-1, 0, 6, 12, 2000}}

InitPlay ==
    /\ InitPure
    /\ size = Sz(1, 1)
    /\ \E n \in PlayLengths :
         frames = [k \in 1..n |-> [id     |-> IF k = 1 THEN INITIAL_FRAME_ID
                                                      ELSE FrameId(k),
                                    pixels |-> createEmptyGrid(1, 1)]]
    /\ currentFrameIdx = 0
    /\ activeTool = "pencil"
    /\ primaryColor = "#000000"
    /\ isPlaying = FALSE
    /\ isAIModalOpen = FALSE
    /\ isNewProjectModalOpen = FALSE
    /\ isGenerating = FALSE
    /\ aiCalls = EmptyBag
    /\ importCalls = EmptyBag
    /\ now = 1
    /\ isDrawing = FALSE
    /\ isPanning = FALSE
    /\ lastDrawPoint = NULL
    /\ dragStart = NULL
    /\ pan = Pt(0, 0)
    /\ zoom = InitialZoom
    /\ lastEvent = [type |-> "init"]
    /\ steps = 0
    /\ dragOrigin = NULL
    /\ InitPlayback

MorePlay == steps < MaxPlaySteps

PlayToggle == MorePlay /\ Ev([type |-> "play"], TogglePlay)

PlayFps ==
    /\ MorePlay
    /\ \E f \in FpsValues : Ev([type |-> "fps", fps |-> f], setFps(f))

\* the interval fires when its period has gone by
PlayTick ==
    /\ MorePlay
    /\ timer # NULL
    /\ timer.elapsed = Due(timer)
    /\ Ev([type |-> "tick"], PlaybackTick)

\* time goes by, never past the moment the interval is due
PlayElapse ==
    /\ Mounted
    /\ \E d \in {PartialElapse, MaxTime - time}
               \cup (IF timer = NULL THEN {} ELSE {Due(timer) - timer.elapsed}) :
         /\ d > 0
         /\ time + d <= MaxTime
         /\ timer # NULL => timer.elapsed + d <= Due(timer)
         /\ time' = time + d
         /\ timer' = IF timer = NULL THEN NULL
                     ELSE [timer EXCEPT !.elapsed = @ + d]
    /\ lastEvent' = [type |-> "elapse"]
    /\ UNCHANGED <<pureVars, projVars, toolVars, isPlaying, modalVars, asyncVars,
                   now, canvasVars, steps, dragOrigin, fps, tickLog, exportVars,
                   strokeFrames>>

NextPlay == PlayToggle \/ PlayFps \/ PlayTick \/ PlayElapse

SpecPlay == InitPlay /\ [][NextPlay]_vars

(***************************************************************************)
(* SpecExport: GIF exports of the default project and, while createGIF is  *)
(* suspended, drawing edits in the colour of the text field, fills, frame  *)
(* insertions and deletions and New Project.                               *)
(***************************************************************************)
ExportStart == More /\ Ev([type |-> "export"], handleExport)
\* the continuation of handleExport after `await createGIF` sets no state
\* and runs whether the tree is mounted or not
ExportDone ==
    /\ More
    /\ \E c \in BagToSet(exportCalls) :
         Handled([type |-> "exportDone", call |-> c], ExportResolved(c))
ExportFail ==
    /\ More
    /\ \E c \in BagToSet(exportCalls) :
         Handled([type |-> "exportFail", call |-> c], ExportRejected(c))

NextExport ==
    \/ ExportStart \/ ExportDone \/ ExportFail
    \/ PointerDown \/ PointerUp \/ SelectTool \/ ColorText
    \/ AddFrame \/ DuplicateFrame \/ DeleteFrame
    \/ NewProjectOpen \/ NewProjectCancel \/ NewProject

SpecExport == Init /\ [][NextExport]_vars

(***************************************************************************)
(* SpecZoom: wheel steps in both directions, as many as it takes to reach  *)
(* both ends of the zoom range from the initial zoom, and one pan with the *)
(* middle button.                                                          *)
(***************************************************************************)
MoreZoom == steps < MaxZoomSteps

ZoomWheel ==
    /\ MoreZoom
    /\ \E d \in {0 - 1, 0, 1} :
         Ev([type |-> "wheel", direction |-> d], handleWheel(d))
ZoomPanDown ==
    /\ MoreZoom
    /\ ~isPanning
    /\ pan = Pt(0, 0)
    /\ \E c \in ClientPts :
         Ev([type |-> "down", point |-> Pt(0, 0), button |-> 1, client |-> c],
            handlePointerDown([button |-> 1, client |-> c, point |-> Pt(0, 0)]))
ZoomPanMove ==
    /\ MoreZoom
    /\ isPanning
    /\ \E c \in ClientPts :
         /\ c # dragStart
         /\ Ev([type |-> "move", point |-> Pt(0, 0), client |-> c],
               handlePointerMove([client |-> c, point |-> Pt(0, 0)]))
ZoomPanUp == MoreZoom /\ isPanning /\ Ev([type |-> "up"], handlePointerUp)

NextZoom == ZoomWheel \/ ZoomPanDown \/ ZoomPanMove \/ ZoomPanUp

SpecZoom == Init /\ [][NextZoom]_vars

(***************************************************************************)
(* SpecGeom: getIndex and getCoords on every input within the bounds,      *)
(* valid or not.                                                           *)
(***************************************************************************)
InitGeom ==
    /\ line = Idle
    /\ fill = Idle
    /\ \E w \in 1..MaxGeomW, x \in (0 - 1)..MaxGeomW, y \in (0 - 1)..MaxGeomY,
          i \in (0 - 1)..MaxGeomI :
         geom = GeomCall(x, y, w, i)
    /\ InitIdleApp

GeomStep ==
    /\ geom.pc = "call"
    /\ geom' = GeomRun(geom)
    /\ UNCHANGED <<line, fill, appVars>>

SpecGeom == InitGeom /\ [][GeomStep]_vars

(***************************************************************************)
(* SpecColor: the ways the active colour changes (the palette, the text    *)
(* field, whose every keystroke sets the active colour to the text as it   *)
(* stands, the ColorPicker) and the edits that follow.                     *)
(***************************************************************************)
\* the 6-hex-digit colours of the model
HexColors == Palette \cup {"#0000ff"}
NextColor ==
    \/ ColorText \/ SelectColor \/ SelectTool
    \/ PointerDown \/ PointerMove \/ PointerUp

SpecColor == Init /\ [][NextColor]_vars

(***************************************************************************)
(* SpecSheet: imports of sprite sheets into the default project or into a  *)
(* project made by New Project at the start of the run.                    *)
(***************************************************************************)
MoreSheet == steps < MaxSheetSteps

SheetNewOpen == steps = 0 /\ EvDialog(OpenNewProjectModal)
SheetNew ==
    /\ steps = 0
    /\ \E sz \in NewSizes : Ev([type |-> "newProject"], handleNewProject(sz))
SheetStart == MoreSheet /\ Ev([type |-> "importStart"], handleFileChange)
SheetDone ==
    /\ MoreSheet
    /\ \E c \in BagToSet(importCalls), img \in SheetImages :
         \E ts \in ImportClocks(c, img) :
           Ev([type |-> "import", call |-> c, img |-> img, clock |-> ts],
              ImportResolved(c, img, ts))
SheetFail ==
    /\ MoreSheet
    /\ \E c \in BagToSet(importCalls) :
         Ev([type |-> "importFail", call |-> c], ImportRejected(c))

NextSheet == SheetNewOpen \/ SheetNew \/ SheetStart \/ SheetDone \/ SheetFail

SpecSheet == Init /\ [][NextSheet]_vars

(***************************************************************************)
(* The claims.                                                             *)
(***************************************************************************)

\* C1: in every reachable state every frame's pixel sequence has length
\* width*height of the project's current size.
C1_FrameLengths ==
    \A i \in 1..Len(frames) :
        Len(frames[i].pixels) = size.width * size.height

\* C2: in every reachable state 0 <= currentIndex < number of frames.
C2_IndexInRange ==
    currentFrameIdx >= 0 /\ currentFrameIdx < Len(frames)

\* C3: the frame sequence always has at least one frame, and deleteFrame on a
\* sequence of exactly one frame leaves frames and current index unchanged.
C3_NeverEmpty ==
    /\ [](Len(frames) >= 1)
    /\ [][(lastEvent'.type = "deleteFrame" /\ Len(frames) = 1)
            => (frames' = frames /\ currentFrameIdx' = currentFrameIdx)]_vars

\* C3 witness: deleteFrame was the first event, on the one frame the project
\* opens with.
C3_Witness ==
    lastEvent.type = "deleteFrame" /\ steps = 1 /\ Len(frames) = 1

\* ---- floodFill
GridPoints(sz) == {Pt(a, b) : a \in 0..(sz.width - 1), b \in 0..(sz.height - 1)}
Neighbors4(p) == {Pt(p.x + 1, p.y), Pt(p.x - 1, p.y), Pt(p.x, p.y + 1), Pt(p.x, p.y - 1)}
ColorAt(px, p, sz) == At(px, getIndex(p.x, p.y, sz.width))

\* The 4-connected component of the cells of colour t that contains S.
RECURSIVE Component(_, _, _, _)
Component(S, px, sz, t) ==
    LET more == {n \in UNION {Neighbors4(p) : p \in S} :
                    InBounds(n, sz) /\ ColorAt(px, n, sz) = t}
    IN  IF more \subseteq S THEN S ELSE Component(S \cup more, px, sz, t)

FillFromStart ==
    /\ fill.pc = "done"
    /\ InBounds(fill.start, fill.size)
    /\ fill.targetColor = ColorAt(fill.pixels, fill.start, fill.size)
    /\ fill.targetColor # fill.fillColor

\* C4: for an in-bounds start whose colour T differs from the fill colour F,
\* floodFill returns the grid in which the cells of the 4-connected component
\* of T-coloured cells containing start are F and every other cell keeps its
\* input colour (so a T cell touching the component only diagonally stays T).
C4_FillsComponent ==
    FillFromStart =>
        LET comp == Component({fill.start}, fill.pixels, fill.size, fill.targetColor)
        IN  /\ Len(fill.result) = Len(fill.pixels)
            /\ \A p \in GridPoints(fill.size) :
                  ColorAt(fill.result, p, fill.size) =
                      IF p \in comp THEN fill.fillColor
                      ELSE ColorAt(fill.pixels, p, fill.size)

\* C4 witness: a fill of a component of three or more cells that left alone a
\* cell of the target colour touching the component only diagonally.
C4_Witness ==
    /\ FillFromStart
    /\ LET comp == Component({fill.start}, fill.pixels, fill.size, fill.targetColor)
       IN  /\ Cardinality(comp) >= 3
           /\ \E p \in comp, q \in GridPoints(fill.size) :
                 /\ Abs(p.x - q.x) = 1 /\ Abs(p.y - q.y) = 1
                 /\ q \notin comp
                 /\ ColorAt(fill.pixels, q, fill.size) = fill.targetColor
                 /\ ColorAt(fill.result, q, fill.size) = fill.targetColor
                 /\ ColorAt(fill.result, p, fill.size) = fill.fillColor

\* C5: floodFill returns its input grid unchanged for every start point that
\* is out of bounds (x < 0, x >= width, y < 0 or y >= height).
C5_OutOfBoundsNoOp ==
    (fill.pc = "done" /\ ~InBounds(fill.start, fill.size))
        => fill.result = fill.pixels

\* C6: floodFill returns the input grid unchanged whenever the fill colour
\* equals the target colour or the colour at start differs from the target
\* colour passed in; and a Bucket pointer-down on a cell whose colour already
\* equals the active colour changes no grid.
C6_NoOpFill ==
    /\ []((/\ fill.pc = "done"
           /\ \/ fill.fillColor = fill.targetColor
              \/ ColorAt(fill.pixels, fill.start, fill.size) # fill.targetColor)
          => fill.result = fill.pixels)
    /\ [][(/\ lastEvent'.type = "down"
           /\ activeTool = "bucket"
           /\ InBounds(lastEvent'.point, size)
           /\ ColorAt(pixels, lastEvent'.point, size) = primaryColor)
          => frames' = frames]_vars

\* C6 witness: the call returned on a start whose colour is the fill colour
\* and not the target colour, and the Bucket went down on that same cell.
C6_Witness ==
    /\ fill.pc = "done"
    /\ InBounds(fill.start, fill.size)
    /\ fill.fillColor # fill.targetColor
    /\ ColorAt(fill.pixels, fill.start, fill.size) = fill.fillColor
    /\ lastEvent.type = "down"
    /\ activeTool = "bucket"
    /\ ColorAt(pixels, lastEvent.point, size) = primaryColor

\* ---- getLinePixels
LineLength == Max(line.dx, line.dy) + 1
PointSet(seq) == {seq[i] : i \in 1..Len(seq)}

\* C7: for all integer points start and end, getLinePixels terminates (it
\* never holds more than max(|dx|,|dy|)+1 points, and it reaches its return)
\* and returns a sequence that starts with start, ends with end and has
\* exactly max(|dx|,|dy|)+1 points; for start = end it returns <<start>>.
C7_LineEndpoints ==
    /\ [](/\ Len(line.points) <= LineLength
          /\ line.pc = "done" =>
               /\ Len(line.points) = LineLength
               /\ line.points[1] = line.start
               /\ line.points[Len(line.points)] = line.end
               /\ (line.start = line.end => line.points = <<line.start>>))
    /\ <>(line.pc = "done")

\* C7 witness: the line of the 3-by-4 displacement has returned, 5 points long.
C7_Witness ==
    /\ line.pc = "done"
    /\ line.start = Pt(0 - 2, 0 - 2)
    /\ line.end = Pt(1, 2)
    /\ Len(line.points) = 5

\* C8: every two consecutive points of the line are 8-connected and distinct.
C8_Connected ==
    \A i \in 1..(Len(line.points) - 1) :
        /\ Abs(line.points[i + 1].x - line.points[i].x) <= 1
        /\ Abs(line.points[i + 1].y - line.points[i].y) <= 1
        /\ line.points[i + 1] # line.points[i]

\* C8 witness: a returned line that took a diagonal step and a straight step.
C8_Witness ==
    /\ line.pc = "done"
    /\ \E i, j \in 1..(Len(line.points) - 1) :
          /\ line.points[i + 1].x # line.points[i].x
          /\ line.points[i + 1].y # line.points[i].y
          /\ line.points[j + 1].y = line.points[j].y

\* C9 as stated: getLinePixels(a, b) and getLinePixels(b, a) contain the same
\* set of points and have the same length.
C9_SameSet ==
    line.pc = "done" =>
        LET back == getLinePixels(line.end, line.start)
        IN  /\ Len(back) = Len(line.points)
            /\ PointSet(back) = PointSet(line.points)

\* C9 as amended: getLinePixels(a, b) and getLinePixels(b, a) have the same
\* length, and the k-th point of the one is a + b minus the k-th point of the
\* other (the reverse line is the forward line reflected through the middle
\* of the segment); the two contain the same set of points when the segment
\* is horizontal, vertical or diagonal.
C9_Reflected ==
    line.pc = "done" =>
        LET back == getLinePixels(line.end, line.start)
        IN  /\ Len(back) = Len(line.points)
            /\ \A k \in 1..Len(back) :
                  back[k] = Pt(line.start.x + line.end.x - line.points[k].x,
                               line.start.y + line.end.y - line.points[k].y)
            /\ (line.dx = 0 \/ line.dy = 0 \/ line.dx = line.dy)
                  => PointSet(back) = PointSet(line.points)

\* C9 witness: the line from (0,0) to (2,1) has returned, and the line back
\* goes through another set of points.
C9_Witness ==
    /\ line.pc = "done"
    /\ line.start = Pt(0, 0)
    /\ line.end = Pt(2, 1)
    /\ PointSet(getLinePixels(line.end, line.start)) # PointSet(line.points)

\* ---- strokes
\* The controller is in Drawing: handlePointerMove takes its drawing branch.
Drawing == isDrawing /\ lastDrawPoint # NULL /\ ~(isPanning /\ dragStart # NULL)
StrokeColor == IF activeTool = "pencil" THEN primaryColor ELSE "transparent"
\* the flat indices of the in-bounds points of the line from a to b
LineCells(a, b, sz) ==
    {getIndex(q.x, q.y, sz.width) :
        q \in {r \in PointSet(getLinePixels(a, b)) : InBounds(r, sz)}}
DiagonalGrid(c) ==
    [k \in 1..16 |-> IF (k - 1) % 4 = (k - 1) \div 4 THEN c ELSE "transparent"]

\* C10: in Drawing, a pointer-move to grid point p with Pencil or Eraser
\* replaces the current frame's grid by that grid with every in-bounds point
\* of the line from lastDrawPoint to p set (Pencil: active colour, Eraser:
\* transparent) and every other cell unchanged, and sets lastDrawPoint to p;
\* on a 4x4 grid painted only at (0,0) by the pointer-down of a Pencil stroke,
\* the move to (3,3) leaves exactly the 4 diagonal cells coloured.
C10_MovePaintsLine ==
    [][(/\ lastEvent'.type = "move"
        /\ Drawing
        /\ activeTool \in {"pencil", "eraser"})
       => LET p   == lastEvent'.point
              old == frames[currentFrameIdx + 1].pixels
              new == frames'[currentFrameIdx + 1].pixels
          IN  /\ Len(frames') = Len(frames)
              /\ Len(new) = Len(old)
              /\ \A hit \in {LineCells(lastDrawPoint, p, size)} :
                    \A i \in 0..(Len(old) - 1) :
                       At(new, i) = IF i \in hit THEN StrokeColor ELSE At(old, i)
              /\ lastDrawPoint' = p
              /\ (/\ size = Sz(4, 4)
                  /\ activeTool = "pencil"
                  /\ lastDrawPoint = Pt(0, 0)
                  /\ p = Pt(3, 3)
                  /\ old = [k \in 1..16 |-> IF k = 1 THEN primaryColor
                                            ELSE "transparent"])
                 => new = DiagonalGrid(primaryColor)]_vars

\* C10 witness: a Pencil stroke on the 4x4 grid has moved to (3,3) and the
\* grid of the current frame is the painted diagonal.
C10_Witness ==
    /\ lastEvent = [type |-> "move", point |-> Pt(3, 3)]
    /\ size = Sz(4, 4)
    /\ isDrawing
    /\ activeTool = "pencil"
    /\ lastDrawPoint = Pt(3, 3)
    /\ pixels = DiagonalGrid(primaryColor)

\* ---- the drawing controller
\* The controller is Idle: neither flag is set.
ControllerIdle == ~isDrawing /\ ~isPanning
\* frame k (0-based) is the same before and after the step
SameFrame(k) ==
    /\ k < Len(frames')
    /\ frames'[k + 1] = frames[k + 1]
\* the step changed nothing of the frame sequence but the pixels of frame k
OnlyPixelsOf(k) ==
    /\ Len(frames') = Len(frames)
    /\ frames'[k + 1].id = frames[k + 1].id
    /\ \A j \in 0..(Len(frames) - 1) : j # k => SameFrame(j)

\* C11: from Idle, a left-button pointer-down with Pencil or Eraser at an
\* in-bounds point enters Drawing, records the point as lastDrawPoint and
\* changes exactly that cell of the current frame (Pencil: active colour,
\* Eraser: transparent); at an out-of-bounds point it leaves the controller
\* Idle and every grid unchanged.
C11_DownPaintsCell ==
    [][(/\ lastEvent'.type = "down"
        /\ lastEvent'.button = 0
        /\ ControllerIdle
        /\ activeTool \in {"pencil", "eraser"})
       => LET p   == lastEvent'.point
              old == frames[currentFrameIdx + 1].pixels
              new == frames'[currentFrameIdx + 1].pixels
          IN  IF InBounds(p, size)
              THEN /\ isDrawing' /\ ~isPanning'
                   /\ lastDrawPoint' = p
                   /\ currentFrameIdx' = currentFrameIdx
                   /\ OnlyPixelsOf(currentFrameIdx)
                   /\ Len(new) = Len(old)
                   /\ \A i \in 0..(Len(old) - 1) :
                         At(new, i) = IF i = getIndex(p.x, p.y, size.width)
                                      THEN StrokeColor ELSE At(old, i)
              ELSE /\ ~isDrawing' /\ ~isPanning'
                   /\ lastDrawPoint' = lastDrawPoint
                   /\ frames' = frames]_vars

\* C11 witness: the Eraser went down on the opaque first cell, which is now
\* transparent, while the opaque last cell is as it was.
C11_Witness ==
    /\ lastEvent.type = "down" /\ lastEvent.button = 0 /\ lastEvent.point = Pt(0, 0)
    /\ steps = 1
    /\ activeTool = "eraser"
    /\ isDrawing /\ ~isPanning
    /\ lastDrawPoint = Pt(0, 0)
    /\ pixels[1] = "transparent"
    /\ pixels[Len(pixels)] = "#000000"

\* C12: a Bucket pointer-down at an in-bounds point makes at most one edit,
\* the fill of the 4-connected component of the cell it went down on, and
\* does not leave the controller in Drawing; the drawing flag is set by no
\* event but a Pencil or Eraser pointer-down, and a pointer-move while it is
\* not set changes no grid: so no pointer-move between the Bucket's
\* pointer-down and the following pointer-up changes a grid.
C12_BucketSingleShot ==
    /\ [][(/\ lastEvent'.type = "down"
            /\ lastEvent'.button = 0
            /\ activeTool = "bucket"
            /\ InBounds(lastEvent'.point, size))
           => LET p    == lastEvent'.point
                  old  == frames[currentFrameIdx + 1].pixels
                  new  == frames'[currentFrameIdx + 1].pixels
                  t    == ColorAt(old, p, size)
                  comp == Component({p}, old, size, t)
              IN  /\ ~isDrawing'
                  /\ currentFrameIdx' = currentFrameIdx
                  /\ OnlyPixelsOf(currentFrameIdx)
                  /\ Len(new) = Len(old)
                  /\ \A q \in GridPoints(size) :
                        ColorAt(new, q, size) =
                            IF q \in comp THEN primaryColor ELSE ColorAt(old, q, size)]_vars
    /\ [][(isDrawing' /\ ~isDrawing)
           => (/\ lastEvent'.type = "down"
               /\ activeTool \in {"pencil", "eraser"})]_vars
    /\ [][(lastEvent'.type = "move" /\ ~isDrawing) => frames' = frames]_vars

\* C12 witness: the Bucket went down on the empty grid and filled it, and the
\* pointer has moved since, before any pointer-up.
C12_Witness ==
    /\ lastEvent.type = "move"
    /\ steps = 2
    /\ activeTool = "bucket"
    /\ ~isDrawing
    /\ lastDrawPoint # NULL
    /\ \A k \in 1..Len(pixels) : pixels[k] = "#000000"

\* C13: from any controller state a pointer-up or pointer-leave results in
\* Idle with the drag anchor and lastDrawPoint cleared and changes no grid,
\* current index, pan or zoom; the controller leaves that state by no event
\* but a pointer-down, and a pointer-move in it changes nothing.
C13_UpReturnsToIdle ==
    /\ [][lastEvent'.type = "up"
           => (/\ ~isDrawing' /\ ~isPanning'
               /\ dragStart' = NULL
               /\ lastDrawPoint' = NULL
               /\ UNCHANGED <<projVars, toolVars, pan, zoom>>)]_vars
    /\ [][(/\ ControllerIdle /\ dragStart = NULL /\ lastDrawPoint = NULL
            /\ lastEvent'.type # "down")
           => UNCHANGED <<isDrawing, isPanning, dragStart, lastDrawPoint>>]_vars
    /\ [][(/\ ControllerIdle /\ dragStart = NULL /\ lastDrawPoint = NULL
            /\ lastEvent'.type = "move")
           => UNCHANGED <<projVars, toolVars, canvasVars>>]_vars

\* C13 witness: a Pencil stroke painted the first cell and was released, and
\* the pointer has moved since.
C13_Witness ==
    /\ lastEvent.type = "move"
    /\ steps = 3
    /\ activeTool = "pencil"
    /\ ControllerIdle /\ dragStart = NULL /\ lastDrawPoint = NULL
    /\ pixels[1] = "#000000"
    /\ pixels[Len(pixels)] = "transparent"

\* the points an event's edit is applied to: the point itself for a
\* pointer-down, the line from lastDrawPoint for a pointer-move in Drawing
EditedPoints(ev) ==
    IF ev.type = "down" THEN {ev.point}
    ELSE IF ev.type = "move" /\ isDrawing /\ lastDrawPoint # NULL
    THEN PointSet(getLinePixels(lastDrawPoint, ev.point))
    ELSE {}

\* C14: a Pencil or Eraser edit at an out-of-bounds point is a no-op: every
\* pointer event of a stroke, also one that goes or comes from outside the
\* canvas, changes only cells of the current frame that are in-bounds points
\* of its line segment (never the cell an out-of-bounds point's flat index
\* falls on), and leaves the grid's length and the other frames as they are.
C14_OutOfBoundsEditNoOp ==
    [][(lastEvent'.type \in {"down", "move"} /\ activeTool \in {"pencil", "eraser"})
       => LET old == frames[currentFrameIdx + 1].pixels
              new == frames'[currentFrameIdx + 1].pixels
          IN  /\ OnlyPixelsOf(currentFrameIdx)
              /\ Len(new) = Len(old)
              /\ \A hit \in {{getIndex(q.x, q.y, size.width) :
                                 q \in {r \in EditedPoints(lastEvent') :
                                           InBounds(r, size)}}} :
                    \A i \in 0..(Len(old) - 1) :
                       i \notin hit => At(new, i) = At(old, i)]_vars

\* C14 witness: a Pencil stroke that began in the last cell of the first row
\* was dragged one cell to the right, out of the canvas; the first cell of
\* the second row, where the flat index of that point falls, is untouched.
C14_Witness ==
    /\ lastEvent = [type |-> "move", point |-> Pt(StrokeSide, 0)]
    /\ steps = 2
    /\ isDrawing
    /\ activeTool = "pencil"
    /\ lastDrawPoint = Pt(StrokeSide, 0)
    /\ pixels[StrokeSide] = primaryColor
    /\ pixels[StrokeSide + 1] = "transparent"

\* a cell value that is a colour: not transparent, and not a hole of the array
Opaque(c) == c \notin {"transparent", "undefined", ""}

\* C15: a ColorPicker pointer-down at an in-bounds point makes the cell's
\* colour the active colour if the cell is opaque and leaves the active
\* colour as it is if the cell is transparent; it changes no grid and does
\* not leave the controller in Drawing.
C15_PickerReports ==
    [][(/\ lastEvent'.type = "down"
        /\ lastEvent'.button = 0
        /\ activeTool = "picker"
        /\ InBounds(lastEvent'.point, size))
       => LET c == ColorAt(pixels, lastEvent'.point, size)
          IN  /\ primaryColor' = IF Opaque(c) THEN c ELSE primaryColor
              /\ UNCHANGED <<projVars, activeTool>>
              /\ ~isDrawing']_vars

\* C15 witness: the picker went down on the red first cell and red is the
\* active colour, which was black.
C15_Witness ==
    /\ lastEvent.type = "down" /\ lastEvent.button = 0 /\ lastEvent.point = Pt(0, 0)
    /\ steps = 1
    /\ activeTool = "picker"
    /\ pixels[1] = "#ff0000"
    /\ primaryColor = "#ff0000"
    /\ ~isDrawing

\* The controller is in Panning: handlePointerMove takes its panning branch.
Panning == isPanning /\ dragStart # NULL

\* C16: a pointer-down with the Move tool or the middle button enters Panning
\* and records the pointer position as anchor; a pointer-move in Panning adds
\* (current - anchor) to pan and makes current the anchor; so throughout a
\* drag, and when the pointer-up ends it, pan is its value at the
\* pointer-down plus (last pointer position - pointer-down position); these
\* events change no frame, nor the current index, nor zoom.
C16_PanFollowsPointer ==
    /\ [][(/\ lastEvent'.type = "down"
            /\ (lastEvent'.button = 1 \/ activeTool = "move"))
           => (/\ isPanning'
               /\ dragStart' = lastEvent'.client
               /\ UNCHANGED <<projVars, pan, zoom>>)]_vars
    /\ [][(lastEvent'.type = "move" /\ Panning)
           => (/\ pan' = Pt(pan.x + (lastEvent'.client.x - dragStart.x),
                             pan.y + (lastEvent'.client.y - dragStart.y))
               /\ dragStart' = lastEvent'.client
               /\ isPanning'
               /\ UNCHANGED <<projVars, zoom>>)]_vars
    /\ [](Panning =>
             /\ dragOrigin # NULL
             /\ pan = Pt(dragOrigin.pan.x + (dragStart.x - dragOrigin.client.x),
                          dragOrigin.pan.y + (dragStart.y - dragOrigin.client.y)))
    /\ [][(lastEvent'.type = "up" /\ Panning)
           => (/\ pan' = Pt(dragOrigin.pan.x + (dragStart.x - dragOrigin.client.x),
                             dragOrigin.pan.y + (dragStart.y - dragOrigin.client.y))
               /\ UNCHANGED <<projVars, zoom>>)]_vars

\* C16 witness: a drag that began at (5,3) with pan (0,0) is three events old
\* and its last pointer-move was to (0,0): pan is (-5,-3).
C16_Witness ==
    /\ lastEvent.type = "move"
    /\ steps = 3
    /\ Panning
    /\ dragOrigin = [pan |-> Pt(0, 0), client |-> Pt(5, 3)]
    /\ dragStart = Pt(0, 0)
    /\ pan = Pt(0 - 5, 0 - 3)

\* C17: duplicateFrame at index i inserts immediately after i a frame whose
\* pixels are those of frame i and makes it the current frame; and every
\* later edit applied to one of the two frames (a Pencil, Eraser or Bucket
\* pointer-down on the current frame, the write of an AI generation to the
\* frame it was requested for) leaves the pixels of the other one unchanged.
C17_DuplicateIndependent ==
    /\ [][lastEvent'.type = "duplicateFrame"
           => (/\ Len(frames') = Len(frames) + 1
               /\ frames'[currentFrameIdx + 1] = frames[currentFrameIdx + 1]
               /\ frames'[currentFrameIdx + 2].pixels =
                      frames[currentFrameIdx + 1].pixels
               /\ currentFrameIdx' = currentFrameIdx + 1)]_vars
    /\ [][(steps >= 1 /\ lastEvent'.type \in {"down", "ai"})
           => LET target == IF lastEvent'.type = "ai" THEN lastEvent'.call.idx
                            ELSE currentFrameIdx
                  other  == 1 - target
              IN  /\ Len(frames') = 2
                  /\ frames'[other + 1].pixels = frames[other + 1].pixels]_vars

\* C18: addFrame at index i makes the sequence one longer; position i+1 holds
\* a new frame of width*height cells, all transparent; the frames formerly at
\* positions <= i keep their positions and the frames formerly at positions
\* > i move up by one, ids and pixels unchanged; the current index is i+1.
C18_AddFrameInserts ==
    [][lastEvent'.type = "addFrame"
       => LET i == currentFrameIdx
              n == Len(frames)
          IN  /\ Len(frames') = n + 1
              /\ Len(frames'[i + 2].pixels) = size.width * size.height
              /\ \A k \in 1..(size.width * size.height) :
                    frames'[i + 2].pixels[k] = "transparent"
              /\ \A k \in 0..i : frames'[k + 1] = frames[k + 1]
              /\ \A k \in (i + 1)..(n - 1) : frames'[k + 2] = frames[k + 1]
              /\ currentFrameIdx' = i + 1
              /\ size' = size]_vars

\* C19: deleteFrame at index i on a sequence of length n > 1 removes exactly
\* the frame at i: the result has length n-1, the frames before i keep their
\* positions, the frames after i move down by one, ids and pixels unchanged;
\* and the current index is max(0, i-1).
C19_DeleteFrameRemoves ==
    [][(lastEvent'.type = "deleteFrame" /\ Len(frames) > 1)
       => LET i == currentFrameIdx
              n == Len(frames)
          IN  /\ Len(frames') = n - 1
              /\ \A k \in 0..(i - 1) : frames'[k + 1] = frames[k + 1]
              /\ \A k \in (i + 1)..(n - 1) : frames'[k] = frames[k + 1]
              /\ currentFrameIdx' = IF i - 1 > 0 THEN i - 1 ELSE 0
              /\ size' = size]_vars

\* C19 witness: the first of two frames was deleted; the one left is the
\* former second frame, made at clock 2, and the current index is 0.
C19_Witness ==
    /\ lastEvent.type = "deleteFrame"
    /\ steps = 4
    /\ Len(frames) = 1
    /\ frames[1].id = FrameId(2)
    /\ currentFrameIdx = 0

\* C20: in every reachable state the frames of the sequence have pairwise
\* distinct ids.
C20_DistinctIds ==
    \A i, j \in 1..Len(frames) : i # j => frames[i].id # frames[j].id

\* C21: while playing, each playback tick sets the current index to
\* (current index + 1) mod the number of frames and changes no frame, so k
\* consecutive ticks advance it by k modulo the length, and one second at
\* fps = 12 (any time from 997 ms to 1078 ms) holds exactly 12 ticks; a tick fires only while playing, and
\* there is no interval once playback is toggled off.
C21_TickAdvances ==
    /\ [](tickLog # NULL =>
            /\ currentFrameIdx = (tickLog.from + tickLog.ticks) % Len(frames)
            /\ (fps = Num(12) /\ time - tickLog.since \in 997..1078) => tickLog.ticks = 12)
    /\ [](~isPlaying => timer = NULL)
    /\ [][lastEvent'.type = "tick" =>
            /\ isPlaying
            /\ currentFrameIdx' = (currentFrameIdx + 1) % Len(frames)
            /\ frames' = frames]_vars

\* twelve ticks in one second at fps = 12 have wrapped around five frames
C21_Witness ==
    /\ isPlaying
    /\ fps = Num(12)
    /\ tickLog # NULL
    /\ time - tickLog.since \in 997..1078
    /\ tickLog.ticks = 12
    /\ Len(frames) = 5
    /\ currentFrameIdx = 2

\* C22: a change of fps while playing does not move the tick that was
\* already scheduled: the time left until the interval next fires is the same
\* after the change as before it.
C22_FpsKeepsSchedule ==
    [][(lastEvent'.type = "fps" /\ isPlaying /\ timer # NULL) =>
           /\ timer' # NULL
           /\ Due(timer') - timer'.elapsed = Due(timer) - timer.elapsed]_vars

\* C23: the completion of an AI generation changes only the pixels of the
\* frame that is current when it completes: the number of frames, every
\* frame's id and the pixels of every other frame are as they were just
\* before the completion.
C23_AIWritesCurrentOnly ==
    [][lastEvent'.type = "ai" =>
           /\ currentFrameIdx < Len(frames)
           /\ OnlyPixelsOf(currentFrameIdx)]_vars

\* C24: a failed import (the decode rejects) and a failed AI generation (null
\* image, thrown service error) leave the frame sequence and the current
\* index as they were, and so does the start of an import; a resolved import
\* has at least one frame, replaces all frames with its result at once and
\* sets the current index to 0.
C24_FailuresChangeNothing ==
    /\ [][(\/ lastEvent'.type \in {"importStart", "importFail", "aiFail",
                                  "aiImageFail"}
           \/ (lastEvent'.type = "aiResponse" /\ ~lastEvent'.image))
          => (frames' = frames /\ currentFrameIdx' = currentFrameIdx)]_vars
    /\ [][lastEvent'.type = "import"
          => LET result == importSpriteSheet(lastEvent'.img, lastEvent'.call.size,
                                             lastEvent'.clock)
             IN  /\ BagIn(lastEvent'.call, importCalls)
                 /\ IF Len(result) >= 1
                    THEN frames' = result /\ currentFrameIdx' = 0
                    ELSE frames' = frames /\ currentFrameIdx' = currentFrameIdx]_vars

\* an import has failed in a project of two frames, the second one current
C24_Witness ==
    /\ lastEvent.type = "importFail"
    /\ Len(frames) = 2
    /\ currentFrameIdx = 1

\* the number of tiles of an image in frames of a size
SheetSmall(img, sz) == img.width < sz.width \/ img.height < sz.height
SheetCols(img, sz) == IF SheetSmall(img, sz) THEN 1 ELSE img.width \div sz.width
SheetRows(img, sz) == IF SheetSmall(img, sz) THEN 1 ELSE img.height \div sz.height

\* C26: an import of an image of imgW x imgH into frames of tW x tH yields one
\* frame when imgW < tW or imgH < tH and floor(imgW/tW) * floor(imgH/tH)
\* frames otherwise, frame k being the tile of column k mod cols and row
\* k div cols (row-major, the partial rows and columns left out); every
\* frame has tW * tH cells.
C26_SheetTiles ==
    [][lastEvent'.type = "import" =>
        LET img == lastEvent'.img
            t == lastEvent'.call.size
            cols == SheetCols(img, t)
        IN  /\ Len(frames') = SheetCols(img, t) * SheetRows(img, t)
            /\ SheetSmall(img, t) => Len(frames') = 1
            /\ ~SheetSmall(img, t) =>
                  Len(frames') = (img.width \div t.width) * (img.height \div t.height)
            /\ \A k \in 0..(Len(frames') - 1) :
                  /\ Len(frames'[k + 1].pixels) = t.width * t.height
                  /\ ~SheetSmall(img, t) =>
                        \A x \in 0..(t.width - 1), y \in 0..(t.height - 1) :
                            frames'[k + 1].pixels[y * t.width + x + 1] =
                                ImagePixel(img, (k % cols) * t.width + x,
                                                (k \div cols) * t.height + y)]_vars

\* C25: a GIF export encodes the frame sequence as it was when the export
\* was started: createGIF is started with the frames, size and fps of that
\* moment, no event changes them while it is suspended, and what it writes
\* has one image per frame of that sequence, in order, with every opaque
\* cell of the frame and nothing else.
C25_ExportSnapshot ==
    /\ [][lastEvent'.type = "export" =>
            exportCalls' =
                AddCall(exportCalls, [frames |-> frames, size |-> size, fps |-> fps])]_vars
    /\ [][lastEvent'.type \notin {"export", "exportDone", "exportFail"} =>
            exportCalls' = exportCalls]_vars
    /\ [][lastEvent'.type = "exportDone" =>
            LET call == lastEvent'.call
            IN  /\ BagIn(call, exportCalls)
                /\ Len(exported'.frames) = Len(call.frames)
                /\ \A k \in 1..Len(call.frames) :
                     LET cells == call.frames[k].pixels
                         image == exported'.frames[k].image
                     IN  /\ \A i \in 0..(Len(cells) - 1) :
                              Opaque(At(cells, i)) =>
                                  At(image, i) = CssColor(At(cells, i))
                         /\ \A i \in 0..(Len(image) - 1) :
                              At(image, i) = IF Opaque(At(cells, i))
                                             THEN CssColor(At(cells, i))
                                             ELSE "transparent"]_vars

\* C27: in every reachable state 1 <= zoom <= 200; a wheel step makes zoom
\* the old zoom times 1.1 (zoom in) or divided by 1.1 (zoom out), clamped to
\* that interval, and changes no frame, current index or pan.
C27_ZoomClamped ==
    /\ [](~ZoomLess(zoom, 1) /\ ~ZoomGreater(zoom, 200))
    /\ [][lastEvent'.type = "wheel" =>
            LET raw == [base |-> zoom.base,
                        exp  |-> IF lastEvent'.direction > 0 THEN zoom.exp + 1
                                 ELSE zoom.exp - 1]
            IN  /\ zoom' = IF ZoomGreater(raw, 200) THEN [base |-> 200, exp |-> 0]
                           ELSE IF ZoomLess(raw, 1) THEN [base |-> 1, exp |-> 0]
                           ELSE raw
                /\ frames' = frames
                /\ currentFrameIdx' = currentFrameIdx
                /\ pan' = pan]_vars

\* a wheel step has been clamped to 200 on a panned canvas
C27_Witness ==
    /\ lastEvent.type = "wheel"
    /\ lastEvent.direction = 1
    /\ zoom = [base |-> 200, exp |-> 0]
    /\ pan # Pt(0, 0)

\* C28: getIndex and getCoords are inverses on valid inputs: for width > 0,
\* 0 <= x < width and y >= 0, getCoords(getIndex(x, y, width), width) is
\* {x, y}; for i >= 0, getIndex of the coordinates getCoords(i, width) is i.
C28_IndexCoordsInverse ==
    geom.pc = "done" =>
        /\ (geom.width > 0 /\ geom.x >= 0 /\ geom.x < geom.width /\ geom.y >= 0)
              => geom.coords = [x |-> geom.x, y |-> geom.y]
        /\ (geom.width > 0 /\ geom.i >= 0) => geom.back = geom.i

\* (2, 3) at width 3 is index 11, and index 7 is (1, 2)
C28_Witness ==
    /\ geom.pc = "done"
    /\ geom.x = 2 /\ geom.y = 3 /\ geom.width = 3
    /\ geom.index = 11
    /\ geom.coords = [x |-> 2, y |-> 3]
    /\ geom.i = 7
    /\ geom.ofI = [x |-> 1, y |-> 2]
    /\ geom.back = 7

\* C29: a pointer-down or pointer-move, whatever the tool (Pencil, Eraser,
\* Bucket), leaves the current index alone and changes at most the pixels of
\* the frame at the current index: the number and order of the frames, every
\* frame's id and the pixels of every other frame are unchanged.
C29_EditsCurrentFrameOnly ==
    [][lastEvent'.type \in {"down", "move"} =>
           /\ currentFrameIdx' = currentFrameIdx
           /\ \/ frames' = frames
              \/ /\ currentFrameIdx < Len(frames)
                 /\ OnlyPixelsOf(currentFrameIdx)]_vars

\* a Bucket fill has painted the second of two frames and not the first
C29_Witness ==
    /\ lastEvent.type = "down"
    /\ activeTool = "bucket"
    /\ Len(frames) = 2
    /\ currentFrameIdx = 1
    /\ \A i \in 1..Len(frames[2].pixels) : frames[2].pixels[i] = primaryColor
    /\ \A i \in 1..Len(frames[1].pixels) : frames[1].pixels[i] = "transparent"

\* C30: floodFill terminates, its work-list empty, on every grid, size and
\* start; no cell index is committed twice: a cell is committed only when it
\* is not yet visited, and it is visited from then on.
C30_FloodTerminates ==
    /\ <>(fill.pc = "done" /\ fill.queue = <<>>)
    /\ [](fill.pc # "idle" =>
            /\ \A i, j \in 1..Len(fill.commits) :
                 fill.commits[i] = fill.commits[j] => i = j
            /\ \A i \in 1..Len(fill.commits) : fill.commits[i] \in fill.visited)
    /\ [][(fill.pc = "loop" /\ fill'.commits # fill.commits) =>
            /\ fill'.commits[Len(fill'.commits)] \notin fill.visited
            /\ fill.visited \subseteq fill'.visited]_vars

\* a fill of the whole 3x2 grid has returned: each of the six cells was
\* committed once
C30_Witness ==
    /\ fill.pc = "done"
    /\ Len(fill.commits) = MaxFillW * MaxFillH
    /\ Cardinality(fill.visited) = MaxFillW * MaxFillH

\* C31: the controller is in exactly one of Idle, Drawing and Panning: in no
\* reachable state are the drawing flag and the panning flag both set.
C31_ExclusiveStates == ~(isDrawing /\ isPanning)

\* C32: a single stroke (one pointer-down, its pointer-moves and the closing
\* pointer-up) changes the pixels of at most one frame, whatever playback
\* ticks come between its pointer events.
C32_StrokeOneFrame == Cardinality(strokeFrames) <= 1

\* C33: whichever pending point floodFill takes from its work-list at each
\* iteration, it returns the grid the coded last-in-first-out order returns
\* (taking the last point is the coded iteration), and the grid passed in is
\* never modified.
C33_OrderIndependent ==
    /\ [](fill.pc = "done" =>
             fill.result = floodFill(fill.pixels, fill.start, fill.targetColor,
                                     fill.fillColor, fill.size))
    /\ [](fill.pc = "loop" /\ Len(fill.queue) > 0 =>
             FloodTake(fill, Len(fill.queue)) = FloodLoop(fill))
    /\ [][fill'.pixels = fill.pixels]_vars

\* a fill of the whole 3x2 grid has returned after committing the cells in
\* another order than the coded one
C33_Witness ==
    /\ fill.pc = "done"
    /\ Len(fill.commits) = MaxFillW * MaxFillH
    /\ fill.commits # FloodRun(FloodCall(fill.pixels, fill.start, fill.targetColor,
                                         fill.fillColor, fill.size)).commits

\* C34: in every reachable state every cell of every frame's grid is
\* 'transparent' or a 6-hex-digit '#RRGGBB' string.
C34_CellFormat ==
    \A k \in 1..Len(frames) :
        \A i \in 1..Len(frames[k].pixels) :
            frames[k].pixels[i] \in {"transparent"} \cup HexColors

\* C35: a Delete Frame that comes immediately after an Add Frame or a
\* Duplicate Frame at current index i gives back the frame sequence as it
\* was before the insertion (ids, pixels and order) and the current index i.
C35_InsertDeleteRestores ==
    (lastEvent.type = "deleteFrame" /\ lastEvent.undo # NULL) =>
        /\ frames = lastEvent.undo.frames
        /\ currentFrameIdx = lastEvent.undo.idx
====
